---- MODULE Spec2Model ----
(***************************************************************************)
(* Christmas-Tree-Ultra: the hand-gesture controller                       *)
(* (src/src/components/GestureController.tsx) as a state machine.          *)
(*                                                                         *)
(* Numbers.  The code computes on JavaScript doubles; the model computes   *)
(* the same expressions exactly, on integers:                              *)
(*   - landmark coordinates are in thousandths (1000 = 1.0);               *)
(*   - a comparison of two Math.hypot values is made on their squares;     *)
(*   - palm positions are in 1/36000 (the centroid divides by 3 and the    *)
(*     moving average by 1..4, so every value is an integer);              *)
(*   - pinch positions are in 1/2000 (a midpoint divides by 2);            *)
(*   - the smoothed hand scale is the decimal fraction n / 10^e of a       *)
(*     thousandth (each smoothing step adds one decimal digit);            *)
(*   - times are in tenths of a second.                                    *)
(***************************************************************************)
EXTENDS Integers, Sequences, FiniteSets, TLC

VARIABLES
    \* ---- refs of the component (lines 57-73)
    lastPalmPos,        \* lastPalmPosRef:   <<>> (null) or <<[x, y]>>
    palmHistory,        \* palmHistoryRef:   sequence of [x, y], newest last
    lastVideoTime,      \* lastVideoTimeRef
    gestureStreak,      \* gestureStreakRef: [name, count], name "null" for null
    pinchCooldown,      \* pinchCooldownRef
    pinchActive,        \* pinchActiveRef
    lastPinchPos,       \* lastPinchPosRef:  <<>> (null) or <<[x, y]>>
    lastFrameTime,      \* lastFrameTimeRef
    rotationBoost,      \* rotationBoostRef
    lastHandScale,      \* lastHandScaleRef: <<>> (null) or <<[n, e]>>
    pinchCount,         \* history: how many times onPinch has been invoked
    runPinches,         \* history: how many of them in the current run of Pinch frames
    \* ---- callbacksRef.current (lines 75-102): the props a frame reads
    photoLocked,
    isPhotoSelected,
    debugMode,
    \* ---- locals of the effect closure (lines 172-176) and of setup()
    isActive,
    handLandmarker,     \* 0 (null) or the id of the detector held
    requestRef,         \* TRUE while a requestAnimationFrame(predictWebcam) is pending
    loadingTimeoutId,   \* 0 (null) or the id of the timer set last
    retryCount,
    pc,                 \* where the running setup() is suspended
    stream,             \* setup's local `stream`: 0 or a stream id
    cdnIdx,             \* setup's loop index i over cdnWasmRoots
    \* ---- the browser
    srcObject,          \* videoRef.current.srcObject: 0 or a stream id
    tracks,             \* stream id -> "none" | "live" | "stopped"
    detectors,          \* detector id -> "none" | "open" | "closed"
    timers,             \* ids of the loading-timeout timers still pending
    retryTimer,         \* TRUE while the 1 s retry timer is pending
    latePromises,       \* promises that lost their withTimeout race and are still pending
    now,                \* Date.now()
    videoTime,          \* video.currentTime
    scene,              \* what this run's surroundings offer: scene, frame timing, props
    calls,              \* the external callbacks invoked by the last step, in order
    probe,              \* <<>>, or <<[landmarks, fingers, isPinch, thumbDiffY,
                        \* detectedGesture]>>: the classifier applied to a chosen input
    \* ---- the share store and its callers (src/unnamed/part_001)
    stored,             \* the document shares/<id>.json held by R2
    pending,            \* caller -> the call of refreshShareExpiry or updateShare it runs
    salts,              \* how many salts crypto.getRandomValues has produced
    started,            \* history: how many calls have been started
    renewed,            \* history: how many calls of refreshShareExpiry returned success
    lastUpdate,         \* history: <<>>, or <<[password, existing, written]>> of the
                        \* updateShare that the last step saw succeed
    localShare,         \* localStorage['christmas_tree_share']: <<>> or <<[shareId]>>
    lastPut,            \* history: <<>>, or <<[caller, fn, attempt, answer]>> of the PUT
                        \* attempt whose end the last step handled
    lastReturn,         \* history: <<>>, or <<[caller, fn, success, puts]>> of the call
                        \* of uploadShare or updateShare that returned in the last step
    \* ---- the storage worker (src/unnamed/part_004, lines 383-627)
    bucket,             \* env.R2_BUCKET at the key shares/<id>.json: <<>> or <<[editToken]>>
    requests,           \* the requests received for that key, each with where its
                        \* handler stands
    lastWrite,          \* history: <<>>, or <<[method, token, over]>> of the request that
                        \* changed the bucket in the last step and the object it replaced
    \* ---- the timeline player (src/unnamed/part_004, lines 43-257)
    config,             \* the hook's config: [loop, autoPlay]; its steps are Steps
    timeline,           \* the hook's state and refs and the browser's timers:
                        \* [isPlaying, currentStepIndex, progress, timerRef, progressRef,
                        \*  timeouts, intervals, made]
    quiet,              \* history: TRUE from a stop() or pause() until the next play,
                        \* next, prev or goTo
    \* ---- the password dialog (src/src/components/ui/PasswordDialog.tsx)
    dialog,             \* the component's state: [password, error, loading, attempts,
                        \* lockedUntil, countdown]
    clock,              \* Date.now() in seconds
    verification,       \* <<>>, or <<[attempts]>>: the handleSubmit suspended at line 62,
                        \* with the attempts of the render it was created in
    audit,              \* history: [failed, lockedAt, valid, saved, onSuccess]
    setupOutcome,       \* history: "pending", "ready" once 'AI READY' was reported,
                        \* "failed" once setup() ended in its catch block without a retry
    frame               \* <<>>, or <<[landmarks, detectedGesture]>> of the frame the last
                        \* step processed (lines 393 and 438)

frameVars == <<lastPalmPos, palmHistory, lastVideoTime, gestureStreak, pinchCooldown,
               pinchActive, lastPinchPos, lastFrameTime, rotationBoost, lastHandScale,
               pinchCount, runPinches>>
propVars  == <<photoLocked, isPhotoSelected, debugMode>>
setupVars == <<isActive, handLandmarker, loadingTimeoutId, retryCount, pc, stream, cdnIdx>>
envVars   == <<srcObject, tracks, detectors, timers, retryTimer, latePromises>>
uploadVars == <<localShare, lastPut, lastReturn>>
workerVars == <<bucket, requests, lastWrite>>
timelineVars == <<config, timeline, quiet>>
dialogVars == <<dialog, clock, verification, audit>>
restVars == <<workerVars, timelineVars, dialogVars>>
shareVars == <<stored, pending, salts, started, renewed, lastUpdate, uploadVars>>
vars == <<frameVars, propVars, setupVars, envVars, requestRef, now, videoTime, scene, calls,
          frame, probe, setupOutcome, shareVars, restVars>>

----------------------------------------------------------------------------
(* Bounds of the model.                                                     *)

\* Date.now() runs from 0 to MaxNow tenths of a second.
MaxNow == 8
\* At most MaxCalls calls of refreshShareExpiry are started.
MaxCalls == 9
\* At most MaxUpdates calls of updateShare are started.
MaxUpdates == 3
\* The smoothed hand scale is followed to MaxScaleDigits decimal digits.
MaxScaleDigits == 4

----------------------------------------------------------------------------
(* Constants of the program.                                                *)

palmSpeed == 25             \* line 49: default of the palmSpeed prop
zoomSpeed == 100            \* line 50: default of the zoomSpeed prop
MAX_RETRIES == 2            \* line 177
HistoryLen == 4             \* line 422: palmHistoryRef keeps the last 4 frames
PinchCooldown == 3          \* line 577: 0.3 s, in tenths of a second
PalmOne == 36000            \* 1.0 as a palm coordinate (lines 417-433)
PinchOne == 2000            \* 1.0 as a pinch coordinate (line 566)
moveThreshold == 36         \* line 537: 0.001 as a palm coordinate
pinchMoveThreshold == 200   \* lines 572-573: 0.1 as a pinch coordinate

Pt(px, py) == [x |-> px, y |-> py]
Abs(a) == IF a < 0 THEN -a ELSE a
Sq(a) == a * a
\* The square of Math.hypot(p.x - q.x, p.y - q.y).
Dist2(p, q) == Sq(p.x - q.x) + Sq(p.y - q.y)
\* The largest r in lo..hi with r * r <= v.
RECURSIVE Root(_, _, _)
Root(v, lo, hi) ==
    IF lo = hi THEN lo
    ELSE IF Sq((lo + hi + 1) \div 2) <= v THEN Root(v, (lo + hi + 1) \div 2, hi)
    ELSE Root(v, lo, (lo + hi + 1) \div 2 - 1)
\* Math.hypot(p.x - q.x, p.y - q.y), for the landmark sets of this model, whose
\* wrist-to-knuckle distance is a whole number of thousandths.
Hypot(p, q) == Root(Dist2(p, q), 0, 2048)

RECURSIVE Pow10(_)
Pow10(e) == IF e = 0 THEN 1 ELSE 10 * Pow10(e - 1)

\* The decimal fraction n / 10^e in lowest terms of 10.
RECURSIVE Norm(_)
Norm(r) == IF r.e > 0 /\ r.n % 10 = 0 THEN Norm([n |-> r.n \div 10, e |-> r.e - 1]) ELSE r

----------------------------------------------------------------------------
(* getFingerState, lines 108-164.                                           *)

isCurled(landmarks, wrist, tipIdx, pipIdx, mcpIdx) ==
    LET tip == landmarks[tipIdx]
        pip == landmarks[pipIdx]
        mcp == landmarks[mcpIdx]
        \* tipToWrist < mcpToWrist * 1.4
        distanceCheck == 100 * Dist2(tip, wrist) < 196 * Dist2(mcp, wrist)
        \* tipToMcp < pipToMcp * 0.8
        severelyBent == 100 * Dist2(tip, mcp) < 64 * Dist2(pip, mcp)
    IN  distanceCheck \/ severelyBent

getFingerState(landmarks, wrist) ==
    LET thumbTip == landmarks[4]
        thumbIP == landmarks[3]
        pinkyMCP == landmarks[17]
        indexMCP == landmarks[5]
        palmWidth2 == Dist2(indexMCP, pinkyMCP)
        thumbOutDist2 == Dist2(thumbTip, pinkyMCP)
        thumbTipToIP2 == Dist2(thumbTip, thumbIP)
        \* thumbTipToIP < palmWidth * 0.3
        thumbCurled == 100 * thumbTipToIP2 < 9 * palmWidth2
        \* thumbOutDist > palmWidth * 0.9 && !thumbCurled
        thumbExtended == 100 * thumbOutDist2 > 81 * palmWidth2 /\ ~thumbCurled
    IN  [thumb  |-> thumbExtended,
         index  |-> ~isCurled(landmarks, wrist, 8, 6, 5),
         middle |-> ~isCurled(landmarks, wrist, 12, 10, 9),
         ring   |-> ~isCurled(landmarks, wrist, 16, 14, 13),
         pinky  |-> ~isCurled(landmarks, wrist, 20, 18, 17)]

----------------------------------------------------------------------------
(* Gesture classification, lines 411-413 and 438-473.                       *)

GestureName == {"None", "Open_Palm", "Closed_Fist", "Pointing_Up", "Thumb_Up",
                "Thumb_Down", "Victory", "ILoveYou", "Pinch"}

\* pinchDist < 0.08
isPinch(landmarks) == Dist2(landmarks[4], landmarks[8]) < Sq(80)

\* Line 442 counting the thumb as well.
extendedCount_WithThumb(fingers) ==
    (IF fingers.thumb THEN 1 ELSE 0)
    + (IF fingers.index THEN 1 ELSE 0) + (IF fingers.middle THEN 1 ELSE 0)
    + (IF fingers.ring THEN 1 ELSE 0) + (IF fingers.pinky THEN 1 ELSE 0)

\* Line 442.
extendedCount(fingers) ==
    (IF fingers.index THEN 1 ELSE 0) + (IF fingers.middle THEN 1 ELSE 0)
    + (IF fingers.ring THEN 1 ELSE 0) + (IF fingers.pinky THEN 1 ELSE 0)

\* thumbDiffY = thumbTipY - thumbBaseY
thumbDiffY(landmarks) == landmarks[4].y - landmarks[2].y

\* The chain of lines 444-473 with a Pinch rule that does not ask for the middle finger.
classify_PinchAlone(fingers, pinch, diffY) ==
    IF pinch THEN "Pinch"
    ELSE IF extendedCount(fingers) = 4 /\ fingers.thumb THEN "Open_Palm"
    ELSE IF extendedCount(fingers) <= 1 /\ ~fingers.thumb THEN "Closed_Fist"
    ELSE IF extendedCount(fingers) = 0 /\ fingers.thumb THEN
        (IF diffY < -50 THEN "Thumb_Up"
         ELSE IF diffY > 50 THEN "Thumb_Down"
         ELSE "Closed_Fist")
    ELSE IF fingers.index /\ fingers.middle /\ ~fingers.ring /\ ~fingers.pinky THEN "Victory"
    ELSE IF fingers.index /\ ~fingers.middle /\ ~fingers.ring /\ ~fingers.pinky THEN "Pointing_Up"
    ELSE IF fingers.thumb /\ fingers.index /\ ~fingers.middle /\ ~fingers.ring /\ fingers.pinky
        THEN "ILoveYou"
    ELSE "None"

\* The chain of lines 444-473 with the fist rule of before its relaxation (=== 0).
classify_StrictFist(fingers, pinch, diffY) ==
    IF pinch /\ fingers.middle THEN "Pinch"
    ELSE IF extendedCount(fingers) = 4 /\ fingers.thumb THEN "Open_Palm"
    ELSE IF extendedCount(fingers) = 0 /\ ~fingers.thumb THEN "Closed_Fist"
    ELSE IF extendedCount(fingers) = 0 /\ fingers.thumb THEN
        (IF diffY < -50 THEN "Thumb_Up"
         ELSE IF diffY > 50 THEN "Thumb_Down"
         ELSE "Closed_Fist")
    ELSE IF fingers.index /\ fingers.middle /\ ~fingers.ring /\ ~fingers.pinky THEN "Victory"
    ELSE IF fingers.index /\ ~fingers.middle /\ ~fingers.ring /\ ~fingers.pinky THEN "Pointing_Up"
    ELSE IF fingers.thumb /\ fingers.index /\ ~fingers.middle /\ ~fingers.ring /\ fingers.pinky
        THEN "ILoveYou"
    ELSE "None"

\* The chain of lines 444-473 behind a warm-up: no label while the palm history is empty.
classify_Warmup(fingers, pinch, diffY) ==
    IF palmHistory = <<>> THEN "None"
    ELSE IF pinch /\ fingers.middle THEN "Pinch"
    ELSE IF extendedCount(fingers) = 4 /\ fingers.thumb THEN "Open_Palm"
    ELSE IF extendedCount(fingers) <= 1 /\ ~fingers.thumb THEN "Closed_Fist"
    ELSE IF extendedCount(fingers) = 0 /\ fingers.thumb THEN
        (IF diffY < -50 THEN "Thumb_Up"
         ELSE IF diffY > 50 THEN "Thumb_Down"
         ELSE "Closed_Fist")
    ELSE IF fingers.index /\ fingers.middle /\ ~fingers.ring /\ ~fingers.pinky THEN "Victory"
    ELSE IF fingers.index /\ ~fingers.middle /\ ~fingers.ring /\ ~fingers.pinky THEN "Pointing_Up"
    ELSE IF fingers.thumb /\ fingers.index /\ ~fingers.middle /\ ~fingers.ring /\ fingers.pinky
        THEN "ILoveYou"
    ELSE "None"

\* The chain of lines 444-473 with its first two rules in the other order.
classify_PalmFirst(fingers, pinch, diffY) ==
    IF extendedCount(fingers) = 4 /\ fingers.thumb THEN "Open_Palm"
    ELSE IF pinch /\ fingers.middle THEN "Pinch"
    ELSE IF extendedCount(fingers) <= 1 /\ ~fingers.thumb THEN "Closed_Fist"
    ELSE IF extendedCount(fingers) = 0 /\ fingers.thumb THEN
        (IF diffY < -50 THEN "Thumb_Up"
         ELSE IF diffY > 50 THEN "Thumb_Down"
         ELSE "Closed_Fist")
    ELSE IF fingers.index /\ fingers.middle /\ ~fingers.ring /\ ~fingers.pinky THEN "Victory"
    ELSE IF fingers.index /\ ~fingers.middle /\ ~fingers.ring /\ ~fingers.pinky THEN "Pointing_Up"
    ELSE IF fingers.thumb /\ fingers.index /\ ~fingers.middle /\ ~fingers.ring /\ fingers.pinky
        THEN "ILoveYou"
    ELSE "None"

\* The if / else-if chain of lines 444-473.
classify(fingers, pinch, diffY) ==
    IF pinch /\ fingers.middle THEN "Pinch"
    ELSE IF extendedCount(fingers) = 4 /\ fingers.thumb THEN "Open_Palm"
    ELSE IF extendedCount(fingers) <= 1 /\ ~fingers.thumb THEN "Closed_Fist"
    ELSE IF extendedCount(fingers) = 0 /\ fingers.thumb THEN
        (IF diffY < -50 THEN "Thumb_Up"
         ELSE IF diffY > 50 THEN "Thumb_Down"
         ELSE "Closed_Fist")
    ELSE IF fingers.index /\ fingers.middle /\ ~fingers.ring /\ ~fingers.pinky THEN "Victory"
    ELSE IF fingers.index /\ ~fingers.middle /\ ~fingers.ring /\ ~fingers.pinky THEN "Pointing_Up"
    ELSE IF fingers.thumb /\ fingers.index /\ ~fingers.middle /\ ~fingers.ring /\ fingers.pinky
        THEN "ILoveYou"
    ELSE "None"

detectedGestureOf(landmarks) ==
    classify(getFingerState(landmarks, landmarks[0]), isPinch(landmarks), thumbDiffY(landmarks))

----------------------------------------------------------------------------
(* The landmark sets the detector reports (results.landmarks[0], line 398): *)
(* 21 points, indices 0..20.  A hand is drawn from a shape (what the thumb  *)
(* and each finger do), a wrist position (ox, oy) and a size k: every point *)
(* is the wrist plus k times the point of the shape.                        *)

ThumbIP(t) ==
    CASE t = "up"    -> Pt(-30, -30)
      [] t = "down"  -> Pt(-30, -10)
      [] t = "flat"  -> Pt(-30, -20)
      [] t = "pinch" -> Pt(-25, -50)
      [] OTHER       -> Pt(-10, -35)      \* "in": folded over the palm

ThumbTip(t) ==
    CASE t = "up"    -> Pt(-45, -40)
      [] t = "down"  -> Pt(-45, 0)
      [] t = "flat"  -> Pt(-45, -20)
      [] t = "pinch" -> Pt(-30, -70)
      [] OTHER       -> Pt(-5, -40)

\* A finger whose knuckle is at (mx, -50): straight ("ext"), folded ("curl") or,
\* for the index finger, bent towards the thumb tip ("pinch").
FingerPts(f, mx, len) ==
    CASE f = "ext"   -> <<Pt(mx, -50), Pt(mx, -70), Pt(mx, -85), Pt(mx, -50 - len)>>
      [] f = "pinch" -> <<Pt(mx, -50), Pt(mx, -70), Pt(mx - 5, -78), Pt(mx - 10, -80)>>
      [] OTHER       -> <<Pt(mx, -50), Pt(mx, -65), Pt(mx, -60), Pt(mx, -55)>>

ShapePts(s) ==
    <<Pt(0, 0), Pt(-10, -10), Pt(-20, -20), ThumbIP(s.thumb), ThumbTip(s.thumb)>>
    \o FingerPts(s.index, -15, 50) \o FingerPts(s.middle, 0, 55)
    \o FingerPts(s.ring, 8, 50) \o FingerPts(s.pinky, 15, 40)

Shape(t, i, m, r, p) == [thumb |-> t, index |-> i, middle |-> m, ring |-> r, pinky |-> p]

Hand(s, ox, oy, k) ==
    [j \in 0..20 |-> Pt(ox + k * ShapePts(s)[j + 1].x, oy + k * ShapePts(s)[j + 1].y)]

OpenShape    == Shape("up", "ext", "ext", "ext", "ext")
FistShape    == Shape("in", "curl", "curl", "curl", "curl")
PointShape   == Shape("up", "ext", "curl", "curl", "curl")
VictoryShape == Shape("in", "ext", "ext", "curl", "curl")
ThumbUpShape == Shape("up", "curl", "curl", "curl", "curl")
ThumbDnShape == Shape("down", "curl", "curl", "curl", "curl")
LoveShape    == Shape("up", "ext", "curl", "curl", "ext")
PinchShape   == Shape("pinch", "pinch", "ext", "curl", "curl")
\* thumb and index tips together, the other three fingers straight (an "OK" sign)
OkShape      == Shape("pinch", "pinch", "ext", "ext", "ext")
\* four fingers straight, thumb folded
FourShape    == Shape("in", "ext", "ext", "ext", "ext")
\* ring finger and thumb only: no rule of the classifier matches
RingShape    == Shape("up", "curl", "curl", "ext", "curl")

----------------------------------------------------------------------------
(* One frame of predictWebcam, lines 386-603, piece by piece.               *)

\* An invoked callback: its name and its arguments (g a string, x and y numbers).
Call(cb, g, x, y) == [cb |-> cb, g |-> g, x |-> x, y |-> y]

\* A step that processes no frame invokes the callbacks cs.
\* The callbacks cs are invoked; the status 'AI READY' among them is put on record.
Report(cs) ==
    /\ calls' = cs
    /\ setupOutcome' = IF \E i \in 1..Len(cs) : cs[i] = Call("onStatus", "AI READY", 0, 0)
                       THEN "ready" ELSE setupOutcome

\* A step that processes no frame invokes the callbacks cs.
Invoke(cs) == Report(cs) /\ frame' = <<>>

\* setup() ends in its catch block, reporting cs, with no retry to come.
Fail(cs) == calls' = cs /\ frame' = <<>> /\ setupOutcome' = "failed"

\* Lines 417-418: the centroid of wrist, index knuckle and pinky knuckle.
rawPalm(landmarks) ==
    Pt(12 * (landmarks[0].x + landmarks[5].x + landmarks[17].x),
       12 * (landmarks[0].y + landmarks[5].y + landmarks[17].y))

\* Lines 421-424 shifting one sample late.
pushHistory_LateShift(history, p) ==
    IF Len(Append(history, p)) > HistoryLen + 1 THEN Tail(Append(history, p))
    ELSE Append(history, p)

\* Lines 421-424 without the shift: the history grows with every frame.
pushHistory_Unbounded(history, p) == Append(history, p)

\* Lines 421-424: push, and shift once more than HistoryLen samples are held.
pushHistory(history, p) ==
    IF Len(Append(history, p)) > HistoryLen THEN Tail(Append(history, p))
    ELSE Append(history, p)

RECURSIVE SumX(_)
SumX(h) == IF h = <<>> THEN 0 ELSE Head(h).x + SumX(Tail(h))
RECURSIVE SumY(_)
SumY(h) == IF h = <<>> THEN 0 ELSE Head(h).y + SumY(Tail(h))

\* Lines 427-428: the mean of the history.
averagePalm(history) == Pt(SumX(history) \div Len(history), SumY(history) \div Len(history))

\* Lines 430-435: the change of the mirrored x and of y since the last palm position.
palmDelta(last, palm) ==
    IF last # <<>>
    THEN Pt((PalmOne - palm.x) - (PalmOne - last[1].x), palm.y - last[1].y)
    ELSE Pt(0, 0)

\* Lines 476-484 carrying the count over to a new label.
nextStreak_CarryOver(streak, g) ==
    IF g # "None" THEN [name |-> g, count |-> streak.count + 1]
    ELSE [name |-> "null", count |-> 0]

\* Lines 476-484.
nextStreak(streak, g) ==
    IF g # "None"
    THEN IF streak.name = g THEN [name |-> g, count |-> streak.count + 1]
         ELSE [name |-> g, count |-> 1]
    ELSE [name |-> "null", count |-> 0]

\* Lines 486-495: thresholdMap[detectedGesture] || 3.
thresholdOf(g) ==
    CASE g = "Pinch"       -> 2
      [] g = "Open_Palm"   -> 2
      [] g = "Closed_Fist" -> 2
      [] g = "Thumb_Up"    -> 5
      [] g = "Thumb_Down"  -> 5
      [] g = "Victory"     -> 4
      [] g = "ILoveYou"    -> 5
      [] OTHER             -> 3

\* The comparison of line 497 made strict.
isStableOf_Strict(streak, g) == streak.count > thresholdOf(g)

\* Line 497.
isStableOf(streak, g) == streak.count >= thresholdOf(g)

\* Line 509: the branch that pans and zooms.
palmControl(g, fingers) == g = "Open_Palm" \/ extendedCount(fingers) = 4

\* Line 515 without the lock.
panZoomAllowed_Always(locked) == TRUE

\* Line 515.
panZoomAllowed(locked) == ~locked

\* Lines 518-521: handSize smoothed into the last scale.
smoothScale(last, handSize) ==
    IF last = <<>> THEN [n |-> handSize, e |-> 0]
    ELSE Norm([n |-> 9 * last[1].n + handSize * Pow10(last[1].e), e |-> last[1].e + 1])

\* Line 524: currentScale - lastHandScaleRef.current = 0.1 * (handSize - last).
deltaScaleOf(last, handSize) ==
    Norm([n |-> handSize * Pow10(last[1].e) - last[1].n, e |-> last[1].e + 1])

\* Lines 523-530: the zoom calls of a stable, unlocked palm frame.
zoomCalls(last, handSize) ==
    IF last # <<>> /\ Abs(deltaScaleOf(last, handSize).n) > Pow10(deltaScaleOf(last, handSize).e)
    THEN <<Call("onZoom", "", Norm([n |-> deltaScaleOf(last, handSize).n * zoomSpeed,
                                    e |-> deltaScaleOf(last, handSize).e]).n,
                              Norm([n |-> deltaScaleOf(last, handSize).n * zoomSpeed,
                                    e |-> deltaScaleOf(last, handSize).e]).e)>>
    ELSE <<>>

\* Lines 537-541 with the comparisons made inclusive.
panCalls_Inclusive(d) ==
    IF Abs(d.x) >= moveThreshold \/ Abs(d.y) >= moveThreshold
    THEN <<Call("onPalmMove", "", d.x * palmSpeed, d.y * palmSpeed)>>
    ELSE <<>>

\* Lines 537-541: moveThreshold = 0.001.
panCalls(d) ==
    IF Abs(d.x) > moveThreshold \/ Abs(d.y) > moveThreshold
    THEN <<Call("onPalmMove", "", d.x * palmSpeed, d.y * palmSpeed)>>
    ELSE <<>>

\* Lines 566-567: the midpoint of thumb tip and index tip, x mirrored.
pinchPos(landmarks) ==
    Pt(PinchOne - (landmarks[4].x + landmarks[8].x), landmarks[4].y + landmarks[8].y)

\* Lines 570-573 with the comparisons made inclusive.
posChanged_Inclusive(lastPos, p) ==
    lastPos = <<>> \/ Abs(p.x - lastPos[1].x) >= pinchMoveThreshold
    \/ Abs(p.y - lastPos[1].y) >= pinchMoveThreshold

\* Lines 570-573: more than 0.1 away from the last fired position on x or on y.
posChanged(lastPos, p) ==
    lastPos = <<>> \/ Abs(p.x - lastPos[1].x) > pinchMoveThreshold
    \/ Abs(p.y - lastPos[1].y) > pinchMoveThreshold

\* Line 575 without any debounce.
pinchFires_Always(active, cooldown, changed) == TRUE

\* Line 575 without the test of pinchActiveRef.
pinchFires_IgnoreActive(active, cooldown, changed) == cooldown <= 0 /\ changed

\* Line 575.
pinchFires(active, cooldown, changed) == ~active /\ cooldown <= 0 /\ changed

\* Lines 556 and 600 with a push of 0.1 added to the decay.
decayBoost_Push(b) == Norm([n |-> 9 * b.n + 1, e |-> b.e + 1])

\* rotationBoostRef.current *= 0.9 (lines 556, 600), on the fraction n / 10^e.
decayBoost(b) == Norm([n |-> 9 * b.n, e |-> b.e + 1])

\* Lines 556-557: decay, then snap to 0 below 0.01.
dampBoost(b) ==
    IF 100 * Abs(decayBoost(b).n) < Pow10(decayBoost(b).e) THEN [n |-> 0, e |-> 0]
    ELSE decayBoost(b)

\* b * c / 100, for onMove(rotationBoost * 0.08) and onMove(rotationBoost * 0.05).
scaledBoost(b, c) == Norm([n |-> c * b.n, e |-> b.e + 2])

\* Lines 509-560 without line 535: an unstable palm frame keeps the scale baseline.
motionStep_KeepBaseline(landmarks, g, fingers, stable, cur, d) ==
    IF palmControl(g, fingers) THEN
        IF panZoomAllowed(photoLocked) THEN
            [boost |-> [n |-> 0, e |-> 0],
             scale |-> IF stable THEN <<smoothScale(lastHandScale, Hypot(landmarks[0], landmarks[9]))>>
                       ELSE lastHandScale,
             palm  |-> <<cur>>,
             calls |-> <<Call("onMove", "", 0, 0)>>
                       \o (IF stable THEN zoomCalls(lastHandScale, Hypot(landmarks[0], landmarks[9]))
                           ELSE <<>>)
                       \o panCalls(d)]
        ELSE
            [boost |-> [n |-> 0, e |-> 0], scale |-> <<>>, palm |-> <<>>,
             calls |-> <<Call("onMove", "", 0, 0)>>]
    ELSE IF isPhotoSelected \/ g = "Pinch" THEN
        [boost |-> [n |-> 0, e |-> 0], scale |-> <<>>, palm |-> <<>>,
         calls |-> <<Call("onMove", "", 0, 0)>>]
    ELSE
        [boost |-> dampBoost(rotationBoost), scale |-> <<>>, palm |-> <<>>,
         calls |-> <<Call("onMove", "", scaledBoost(dampBoost(rotationBoost), 8).n,
                                        scaledBoost(dampBoost(rotationBoost), 8).e)>>]

\* Lines 509-560: the palm-control branch and the damping branch.  cur is the
\* averaged palm position, d the palm delta of this frame.
motionStep(landmarks, g, fingers, stable, cur, d) ==
    IF palmControl(g, fingers) THEN
        IF panZoomAllowed(photoLocked) THEN
            [boost |-> [n |-> 0, e |-> 0],
             scale |-> IF stable THEN <<smoothScale(lastHandScale, Hypot(landmarks[0], landmarks[9]))>>
                       ELSE <<>>,
             palm  |-> <<cur>>,
             calls |-> <<Call("onMove", "", 0, 0)>>
                       \o (IF stable THEN zoomCalls(lastHandScale, Hypot(landmarks[0], landmarks[9]))
                           ELSE <<>>)
                       \o panCalls(d)]
        ELSE
            [boost |-> [n |-> 0, e |-> 0], scale |-> <<>>, palm |-> <<>>,
             calls |-> <<Call("onMove", "", 0, 0)>>]
    ELSE IF isPhotoSelected \/ g = "Pinch" THEN
        [boost |-> [n |-> 0, e |-> 0], scale |-> <<>>, palm |-> <<>>,
         calls |-> <<Call("onMove", "", 0, 0)>>]
    ELSE
        [boost |-> dampBoost(rotationBoost), scale |-> <<>>, palm |-> <<>>,
         calls |-> <<Call("onMove", "", scaledBoost(dampBoost(rotationBoost), 8).n,
                                        scaledBoost(dampBoost(rotationBoost), 8).e)>>]

\* Lines 563-594 with the dispatch switched off while the photo is locked.
dispatchStep_LockedSilent(landmarks, g, stable, cooldown) ==
    IF stable /\ ~photoLocked THEN
        IF g = "Pinch" THEN
            IF pinchFires(pinchActive, cooldown, posChanged(lastPinchPos, pinchPos(landmarks)))
            THEN [active |-> TRUE, cooldown |-> PinchCooldown, pos |-> <<pinchPos(landmarks)>>,
                  calls |-> <<Call("onPinch", "", pinchPos(landmarks).x, pinchPos(landmarks).y)>>]
            ELSE [active |-> pinchActive, cooldown |-> cooldown, pos |-> lastPinchPos,
                  calls |-> <<>>]
        ELSE
            [active |-> FALSE, cooldown |-> cooldown, pos |-> lastPinchPos,
             calls |-> IF g # "None" THEN <<Call("onGesture", g, 0, 0)>> ELSE <<>>]
    ELSE IF g = "None" THEN
        [active |-> FALSE, cooldown |-> cooldown, pos |-> <<>>, calls |-> <<>>]
    ELSE
        [active |-> pinchActive, cooldown |-> cooldown, pos |-> lastPinchPos, calls |-> <<>>]

\* Lines 563-594 reporting every stable label, Pinch included, through onGesture.
dispatchStep_PinchToo(landmarks, g, stable, cooldown) ==
    IF stable THEN
        [active |-> FALSE, cooldown |-> cooldown, pos |-> lastPinchPos,
         calls |-> <<Call("onGesture", g, 0, 0)>>]
    ELSE IF g = "None" THEN
        [active |-> FALSE, cooldown |-> cooldown, pos |-> <<>>, calls |-> <<>>]
    ELSE
        [active |-> pinchActive, cooldown |-> cooldown, pos |-> lastPinchPos, calls |-> <<>>]

\* Lines 563-594: the stable-gesture dispatch.  cooldown is the cooldown after
\* this frame's decrement.
dispatchStep(landmarks, g, stable, cooldown) ==
    IF stable THEN
        IF g = "Pinch" THEN
            IF pinchFires(pinchActive, cooldown, posChanged(lastPinchPos, pinchPos(landmarks)))
            THEN [active |-> TRUE, cooldown |-> PinchCooldown, pos |-> <<pinchPos(landmarks)>>,
                  calls |-> <<Call("onPinch", "", pinchPos(landmarks).x, pinchPos(landmarks).y)>>]
            ELSE [active |-> pinchActive, cooldown |-> cooldown, pos |-> lastPinchPos,
                  calls |-> <<>>]
        ELSE
            [active |-> FALSE, cooldown |-> cooldown, pos |-> lastPinchPos,
             calls |-> IF g # "None" THEN <<Call("onGesture", g, 0, 0)>> ELSE <<>>]
    ELSE IF g = "None" THEN
        [active |-> FALSE, cooldown |-> cooldown, pos |-> <<>>, calls |-> <<>>]
    ELSE
        [active |-> pinchActive, cooldown |-> cooldown, pos |-> lastPinchPos, calls |-> <<>>]

\* Line 391 decrementing by half the elapsed time.
cooledDown_Slow(cooldown, delta) == IF cooldown > 0 THEN cooldown - (delta \div 2) ELSE cooldown

\* Line 391.
cooledDown(cooldown, delta) == IF cooldown > 0 THEN cooldown - delta ELSE cooldown

\* Lines 499-504: the debug status line, "<gesture> (<count>/<threshold>) ...".
debugCalls(g, streak) ==
    IF debugMode THEN <<Call("onStatus", g, streak.count, thresholdOf(g))>> ELSE <<>>

\* Lines 397-595: a frame with a hand.  Every local of the code is bound once, to its
\* value, in the order the code computes it.
handFrame(landmarks, delta, pre) ==
    \E fingers \in {getFingerState(landmarks, landmarks[0])} :
    \E history \in {pushHistory(palmHistory, rawPalm(landmarks))} :
    \E cur \in {averagePalm(history)} :
    \E g \in {classify(fingers, isPinch(landmarks), thumbDiffY(landmarks))} :
    \E streak \in {nextStreak(gestureStreak, g)} :
    \E stable \in {isStableOf(streak, g)} :
    \E motion \in {motionStep(landmarks, g, fingers, stable, cur, palmDelta(lastPalmPos, cur))} :
    \E fire \in {dispatchStep(landmarks, g, stable, cooledDown(pinchCooldown, delta))} :
        /\ IF motion.scale = <<>> THEN TRUE ELSE motion.scale[1].e <= MaxScaleDigits
        /\ palmHistory' = history
        /\ lastPalmPos' = motion.palm
        /\ gestureStreak' = streak
        /\ rotationBoost' = motion.boost
        /\ lastHandScale' = motion.scale
        /\ pinchActive' = fire.active
        /\ pinchCooldown' = fire.cooldown
        /\ lastPinchPos' = fire.pos
        /\ pinchCount' = pinchCount + Cardinality({i \in 1..Len(fire.calls) : fire.calls[i].cb = "onPinch"})
        /\ runPinches' = IF g # "Pinch" THEN 0
                         ELSE (IF gestureStreak.name = "Pinch" THEN runPinches ELSE 0)
                              + Cardinality({i \in 1..Len(fire.calls) : fire.calls[i].cb = "onPinch"})
        /\ Report(pre \o debugCalls(g, streak) \o motion.calls \o fire.calls)
        /\ frame' = <<[landmarks |-> <<landmarks>>, fingers |-> fingers, detectedGesture |-> g]>>

\* Lines 596-603 without the reset of line 599.
noHandFrame_KeepStreak(delta, pre) ==
    /\ palmHistory' = <<>>
    /\ rotationBoost' = decayBoost(rotationBoost)
    /\ pinchCooldown' = cooledDown(pinchCooldown, delta)
    /\ Report(pre \o <<Call("onMove", "", scaledBoost(decayBoost(rotationBoost), 5).n,
                                            scaledBoost(decayBoost(rotationBoost), 5).e)>>
                    \o (IF ~debugMode THEN <<Call("onStatus", "AI READY", 0, 0)>> ELSE <<>>))
    /\ frame' = <<[landmarks |-> <<>>, detectedGesture |-> ""]>>
    /\ runPinches' = 0
    /\ UNCHANGED <<lastPalmPos, lastHandScale, pinchActive, lastPinchPos, pinchCount,
                   gestureStreak>>

\* Lines 596-603 without the onMove call.
noHandFrame_NoMove(delta, pre) ==
    /\ palmHistory' = <<>>
    /\ gestureStreak' = [name |-> "null", count |-> 0]
    /\ rotationBoost' = decayBoost(rotationBoost)
    /\ pinchCooldown' = cooledDown(pinchCooldown, delta)
    /\ Report(pre \o (IF ~debugMode THEN <<Call("onStatus", "AI READY", 0, 0)>> ELSE <<>>))
    /\ frame' = <<[landmarks |-> <<>>, detectedGesture |-> ""]>>
    /\ runPinches' = 0
    /\ UNCHANGED <<lastPalmPos, lastHandScale, pinchActive, lastPinchPos, pinchCount>>

\* Lines 596-603 run ahead of what the caller had reported (line 341).
noHandFrame_ReadyLast(delta, pre) ==
    /\ palmHistory' = <<>>
    /\ gestureStreak' = [name |-> "null", count |-> 0]
    /\ rotationBoost' = decayBoost(rotationBoost)
    /\ pinchCooldown' = cooledDown(pinchCooldown, delta)
    /\ Report(<<Call("onMove", "", scaledBoost(decayBoost(rotationBoost), 5).n,
                                   scaledBoost(decayBoost(rotationBoost), 5).e)>>
              \o (IF ~debugMode THEN <<Call("onStatus", "AI READY", 0, 0)>> ELSE <<>>)
              \o pre)
    /\ frame' = <<[landmarks |-> <<>>, detectedGesture |-> ""]>>
    /\ runPinches' = 0
    /\ UNCHANGED <<lastPalmPos, lastHandScale, pinchActive, lastPinchPos, pinchCount>>

\* Lines 596-603: a frame without a hand.
noHandFrame(delta, pre) ==
    /\ palmHistory' = <<>>
    /\ gestureStreak' = [name |-> "null", count |-> 0]
    /\ rotationBoost' = decayBoost(rotationBoost)
    /\ pinchCooldown' = cooledDown(pinchCooldown, delta)
    /\ Report(pre \o <<Call("onMove", "", scaledBoost(decayBoost(rotationBoost), 5).n,
                                            scaledBoost(decayBoost(rotationBoost), 5).e)>>
                    \o (IF ~debugMode THEN <<Call("onStatus", "AI READY", 0, 0)>> ELSE <<>>))
    /\ frame' = <<[landmarks |-> <<>>, detectedGesture |-> ""]>>
    /\ runPinches' = 0
    /\ UNCHANGED <<lastPalmPos, lastHandScale, pinchActive, lastPinchPos, pinchCount>>

\* Line 409: getFingerState reads landmarks[2] to landmarks[20] and their x and y; a
\* point that is missing is undefined and reading its x is a TypeError.
throwsTypeError(landmarks) == ~(0..20 \subseteq DOMAIN landmarks)

\* Lines 386-409: a frame whose hand makes getFingerState throw.  The exception
\* leaves predictWebcam, after lines 386-391 and before any other ref is written.
throwFrame(landmarks, delta, pre) ==
    /\ pinchCooldown' = cooledDown(pinchCooldown, delta)
    /\ Report(pre)
    /\ frame' = <<[landmarks |-> <<landmarks>>, detectedGesture |-> ""]>>
    /\ runPinches' = 0
    /\ UNCHANGED <<lastPalmPos, palmHistory, gestureStreak, pinchActive, lastPinchPos,
                   rotationBoost, lastHandScale, pinchCount>>

\* Line 380 without the gate.
hasNewFrame_Always(ready, vt) == TRUE

\* Line 380: video.readyState >= 2 && video.currentTime !== lastVideoTimeRef.current.
hasNewFrame(ready, vt) == ready /\ vt # lastVideoTime

\* predictWebcam, lines 372-606.  nowv is Date.now(), prev the value of
\* lastFrameTimeRef when it is called, ready and vt the video's state, landmarks
\* results.landmarks of detectForVideo, pre the callbacks the caller has invoked
\* already in this step.
predictWebcam(nowv, prev, ready, vt, landmarks, pre) ==
    IF ~isActive \/ handLandmarker = 0 THEN
        /\ requestRef' = FALSE
        /\ Invoke(pre)
        /\ UNCHANGED frameVars
    ELSE IF hasNewFrame(ready, vt) THEN
        /\ lastVideoTime' = vt
        /\ lastFrameTime' = nowv
        /\ IF Len(landmarks) = 0 THEN
                noHandFrame(nowv - prev, pre) /\ requestRef' = TRUE
           ELSE IF throwsTypeError(landmarks[1]) THEN
                \* line 605 is not reached: no frame is requested any more
                throwFrame(landmarks[1], nowv - prev, pre) /\ requestRef' = FALSE
           ELSE
                handFrame(landmarks[1], nowv - prev, pre) /\ requestRef' = TRUE
    ELSE
        /\ requestRef' = TRUE
        /\ Invoke(pre)
        /\ UNCHANGED frameVars

----------------------------------------------------------------------------
(* The inputs.                                                              *)

BaseHand(s) == Hand(s, 500, 800, 4)

\* One hand of every label, at one place and size.
GestureHands ==
    {BaseHand(OpenShape), BaseHand(FistShape), BaseHand(PointShape), BaseHand(VictoryShape),
     BaseHand(ThumbUpShape), BaseHand(ThumbDnShape), BaseHand(LoveShape), BaseHand(PinchShape),
     BaseHand(RingShape)}

\* Pinches at three places (0.1 and 0.12 apart in x), a fist held higher and a hand
\* of no label.
PinchHands ==
    {BaseHand(PinchShape), Hand(PinchShape, 400, 800, 4), Hand(PinchShape, 380, 800, 4),
     Hand(FistShape, 500, 700, 4), BaseHand(RingShape)}

\* Open palms that move and grow, the four-finger hands that take the palm-control
\* branch under another label, and a fist.
PalmHands ==
    {BaseHand(OpenShape), Hand(OpenShape, 510, 800, 4), Hand(OpenShape, 500, 800, 5),
     BaseHand(OkShape), Hand(OkShape, 500, 800, 5), BaseHand(FourShape), BaseHand(FistShape)}

\* A landmark list that stops after 20 points.
ShortHand == [j \in 0..19 |-> BaseHand(FistShape)[j]]

\* The hands of the set-up and tear-down runs: a fist, and the fist cut short.
FewHands == {BaseHand(FistShape), ShortHand}

\* Open palms 0.002 apart in x and in y, and 0.003 apart in x; a four-finger hand.
PanHands ==
    {BaseHand(OpenShape), Hand(OpenShape, 502, 802, 4), Hand(OpenShape, 503, 800, 4),
     BaseHand(FourShape)}

\* An open palm that drifts: 0.01 farther in x with every frame the video delivers.
RampHands == {Hand(OpenShape, 500 + 10 * (lastVideoTime + 1), 800, 4)}

\* Pinches at two places, for a video that does not deliver a frame at every tick.
StallHands == {BaseHand(PinchShape), Hand(PinchShape, 380, 800, 4)}

HandsOf(sc) ==
    CASE sc = "labels" -> GestureHands
      [] sc = "pinch"  -> PinchHands
      [] sc = "palm"   -> PalmHands
      [] sc = "pan"    -> PanHands
      [] sc = "ramp"   -> RampHands
      [] sc = "stall"  -> StallHands
      [] OTHER         -> FewHands

\* results.landmarks: no hand, or one hand (numHands: 1, line 197).
Detections == {<<>>} \cup {<<h>> : h \in HandsOf(scene)}

\* The time from one animation frame to the next, in tenths of a second.
Deltas == IF scene = "pinch" THEN {1, 2} ELSE {1}

\* The state of the video element at a tick: a new frame, the frame already
\* processed, or readyState < 2.
VideoStates == IF scene \in {"few", "stall"} THEN {"new", "same", "notready"} ELSE {"new"}

\* The props <<photoLocked, isPhotoSelected, debugMode>> the caller passes.
PropChoices ==
    CASE scene = "labels" -> BOOLEAN \X BOOLEAN \X BOOLEAN
      [] scene \in {"pinch", "stall"} -> {<<FALSE, s, FALSE>> : s \in BOOLEAN}
      [] scene \in {"palm", "pan", "ramp"} -> {<<l, FALSE, FALSE>> : l \in BOOLEAN}
      [] OTHER            -> {<<FALSE, FALSE, FALSE>>}

----------------------------------------------------------------------------
(* set-up, frame loop and tear-down of the effect, lines 166-620.           *)

Status(text) == Call("onStatus", text, 0, 0)

\* The run of setup() in progress: the first call and one per retry.
run == retryCount + 1
Runs == 1..(MAX_RETRIES + 1)
\* The detectors run r can create: one with the GPU delegate, one with the CPU delegate.
gpuDetector(r) == 2 * r - 1
cpuDetector(r) == 2 * r
DetectorIds == 1..(2 * (MAX_RETRIES + 1))

stopTracks(sid) == [tracks EXCEPT ![sid] = "stopped"]

\* The catch block, lines 348-369.  kind is what was thrown.
catchError(kind, pre) ==
    /\ pc' = "idle"
    /\ IF kind = "denied" THEN
            /\ Fail(pre \o <<Status("AI PERMISSION DENIED")>>)
            /\ UNCHANGED <<retryCount, retryTimer>>
       ELSE IF kind = "timeout" THEN
            IF retryCount < MAX_RETRIES THEN
                /\ retryCount' = retryCount + 1
                /\ Invoke(pre \o <<Status("AI: retrying")>>)
                /\ retryTimer' = TRUE
            ELSE
                /\ Fail(pre \o <<Status("AI TIMEOUT")>>)
                /\ UNCHANGED <<retryCount, retryTimer>>
       ELSE
            /\ Fail(pre \o <<Status("AI ERROR")>>)
            /\ UNCHANGED <<retryCount, retryTimer>>

\* Lines 214-240: setup() up to its first await.
setupStart ==
    /\ Invoke(<<Status("AI LOADING..."), Status("AI: requesting camera")>>)
    /\ timers' = timers \cup {run}
    /\ loadingTimeoutId' = run
    /\ pc' = "camera"

\* The effect runs, line 608.
UseEffect ==
    /\ pc = "mount"
    /\ setupStart
    /\ UNCHANGED <<frameVars, propVars, isActive, handLandmarker, retryCount, stream, cdnIdx,
                   srcObject, tracks, detectors, retryTimer, latePromises, requestRef, now,
                   videoTime, scene, probe, shareVars, restVars>>

\* Lines 360-362: the retry timer fires.
RetryTimer ==
    /\ retryTimer
    /\ retryTimer' = FALSE
    /\ IF isActive THEN setupStart
       ELSE Invoke(<<>>) /\ UNCHANGED <<timers, loadingTimeoutId, pc>>
    /\ UNCHANGED <<frameVars, propVars, isActive, handLandmarker, retryCount, stream, cdnIdx,
                   srcObject, tracks, detectors, latePromises, requestRef, now, videoTime, scene, probe, shareVars, restVars>>

\* Lines 218-223: a loading-timeout timer fires.
LoadingTimeout ==
    \E id \in timers :
        /\ timers' = timers \ {id}
        /\ Invoke(IF isActive /\ handLandmarker = 0 THEN <<Status("AI TIMEOUT")>> ELSE <<>>)
        /\ UNCHANGED <<frameVars, propVars, setupVars, srcObject, tracks, detectors, retryTimer,
                       latePromises, requestRef, now, videoTime, scene, probe, shareVars, restVars>>

\* Lines 228-248 and the catch block: the camera request settles, or its 10 s
\* withTimeout timer fires first and the request stays pending.
CameraSettles ==
    /\ pc = "camera"
    /\ \E outcome \in {"granted", "denied", "failed", "timeout"} :
        IF outcome = "granted" THEN
            IF ~isActive THEN
                /\ tracks' = [tracks EXCEPT ![run] = "stopped"]
                /\ pc' = "idle"
                /\ Invoke(<<>>)
                /\ UNCHANGED <<stream, retryCount, retryTimer, latePromises>>
            ELSE
                /\ tracks' = [tracks EXCEPT ![run] = "live"]
                /\ stream' = run
                /\ pc' = "localWasm"
                /\ Invoke(<<Status("AI: loading engine")>>)
                /\ UNCHANGED <<retryCount, retryTimer, latePromises>>
        ELSE
            /\ catchError(outcome, <<>>)
            /\ latePromises' = IF outcome = "timeout"
                               THEN latePromises \cup {[kind |-> "camera", id |-> run]}
                               ELSE latePromises
            /\ UNCHANGED <<tracks, stream>>
    /\ UNCHANGED <<frameVars, propVars, isActive, handLandmarker, loadingTimeoutId, cdnIdx,
                   srcObject, detectors, timers, requestRef, now, videoTime, scene, probe, shareVars, restVars>>

\* Lines 286-297: after the WASM loads, with vision set.
afterVision ==
    IF ~isActive THEN
        /\ tracks' = stopTracks(stream)
        /\ pc' = "idle"
        /\ Invoke(<<>>)
    ELSE
        /\ pc' = "gpu"
        /\ Invoke(<<Status("AI: loading model")>>)
        /\ UNCHANGED tracks

\* Lines 253-271: the local WASM load settles (a rejection or its 15 s timeout fail it).
LocalWasmSettles ==
    /\ pc = "localWasm"
    /\ \E ok \in BOOLEAN :
        IF ok THEN afterVision /\ UNCHANGED cdnIdx
        ELSE /\ Invoke(<<Status("AI: local load failed, trying CDN"), Status("AI: loading engine (CDN)")>>)
             /\ cdnIdx' = 0
             /\ pc' = "cdn"
             /\ UNCHANGED tracks
    /\ UNCHANGED <<frameVars, propVars, isActive, handLandmarker, loadingTimeoutId, retryCount,
                   stream, srcObject, detectors, timers, retryTimer, latePromises, requestRef,
                   now, videoTime, scene, probe, shareVars, restVars>>

\* Lines 269-288: the load from CDN cdnIdx settles; after the last CDN failed,
\* line 287 throws an error whose message names no timeout.
CdnSettles ==
    /\ pc = "cdn"
    /\ \E ok \in BOOLEAN :
        IF ok THEN afterVision /\ UNCHANGED <<cdnIdx, retryCount, retryTimer>>
        ELSE IF cdnIdx + 1 < 3 THEN
             /\ cdnIdx' = cdnIdx + 1
             /\ Invoke(<<Status("AI: loading engine (CDN)")>>)
             /\ UNCHANGED <<pc, tracks, retryCount, retryTimer>>
        ELSE /\ catchError("failed", <<>>)
             /\ UNCHANGED <<cdnIdx, tracks>>
    /\ UNCHANGED <<frameVars, propVars, isActive, handLandmarker, loadingTimeoutId, stream,
                   srcObject, detectors, timers, latePromises, requestRef, now, videoTime, scene, probe, shareVars, restVars>>

\* Lines 326-347: after the model loads into detector id.
afterModel(id) ==
    IF ~isActive THEN
        /\ tracks' = stopTracks(stream)
        /\ detectors' = [detectors EXCEPT ![id] = "closed"]
        /\ pc' = "idle"
        /\ UNCHANGED <<handLandmarker, srcObject>>
    ELSE
        /\ detectors' = [detectors EXCEPT ![id] = "open"]
        /\ handLandmarker' = id
        /\ srcObject' = stream
        /\ pc' = "loadeddata"
        /\ UNCHANGED tracks

\* Lines 301-312: the GPU model load settles, or its withTimeout timer fires first.
GpuSettles ==
    /\ pc = "gpu"
    /\ \E outcome \in {"loaded", "failed", "timeout"} :
        IF outcome = "loaded" THEN
            /\ afterModel(gpuDetector(run))
            /\ Invoke(<<>>)
            /\ UNCHANGED latePromises
        ELSE
            /\ pc' = "cpu"
            /\ Invoke(<<Status("AI: loading model (CPU)")>>)
            /\ latePromises' = IF outcome = "timeout"
                               THEN latePromises \cup {[kind |-> "detector", id |-> gpuDetector(run)]}
                               ELSE latePromises
            /\ UNCHANGED <<tracks, detectors, handLandmarker, srcObject>>
    /\ UNCHANGED <<frameVars, propVars, isActive, loadingTimeoutId, retryCount, stream, cdnIdx,
                   timers, retryTimer, requestRef, now, videoTime, scene, probe, shareVars, restVars>>

\* Lines 312-324: the CPU model load settles; on failure line 322 throws an error
\* whose message names no timeout.
CpuSettles ==
    /\ pc = "cpu"
    /\ \E outcome \in {"loaded", "failed", "timeout"} :
        IF outcome = "loaded" THEN
            /\ afterModel(cpuDetector(run))
            /\ Invoke(<<>>)
            /\ UNCHANGED <<latePromises, retryCount, retryTimer>>
        ELSE
            /\ catchError("failed", <<>>)
            /\ latePromises' = IF outcome = "timeout"
                               THEN latePromises \cup {[kind |-> "detector", id |-> cpuDetector(run)]}
                               ELSE latePromises
            /\ UNCHANGED <<tracks, detectors, handLandmarker, srcObject>>
    /\ UNCHANGED <<frameVars, propVars, isActive, loadingTimeoutId, stream, cdnIdx, timers,
                   requestRef, now, videoTime, scene, probe, shareVars, restVars>>

\* A promise that lost its withTimeout race (lines 205-212) resolves after all:
\* the camera opens, or the detector is created, and nothing holds the result.
LatePromiseResolves ==
    \E p \in latePromises :
        /\ latePromises' = latePromises \ {p}
        /\ IF p.kind = "camera"
           THEN tracks' = [tracks EXCEPT ![p.id] = "live"] /\ UNCHANGED detectors
           ELSE detectors' = [detectors EXCEPT ![p.id] = "open"] /\ UNCHANGED tracks
        /\ Invoke(<<>>)
        /\ UNCHANGED <<frameVars, propVars, setupVars, srcObject, timers, retryTimer, requestRef,
                       now, videoTime, scene, probe, shareVars, restVars>>

\* Lines 336-338: the video fires loadeddata and the listener requests a frame.
LoadedData ==
    /\ pc = "loadeddata"
    /\ pc' = "raf"
    /\ Invoke(<<>>)
    /\ UNCHANGED <<frameVars, propVars, isActive, handLandmarker, loadingTimeoutId, retryCount,
                   stream, cdnIdx, envVars, requestRef, now, videoTime, scene, probe, shareVars, restVars>>

\* Lines 338-344: that frame callback reports AI READY and runs the first predictWebcam.
StartLoop ==
    /\ pc = "raf"
    /\ pc' = "idle"
    /\ IF ~isActive THEN
            /\ Invoke(<<>>)
            /\ UNCHANGED <<frameVars, requestRef, timers, videoTime>>
       ELSE
            /\ timers' = timers \ {loadingTimeoutId}
            /\ videoTime' = now
            /\ \E landmarks \in Detections :
                  predictWebcam(now, now, TRUE, now, landmarks, <<Status("AI READY")>>)
    /\ UNCHANGED <<propVars, isActive, handLandmarker, loadingTimeoutId, retryCount, stream,
                   cdnIdx, srcObject, tracks, detectors, retryTimer, latePromises, now, scene, probe, shareVars, restVars>>

\* Line 605: the requested animation frame runs predictWebcam, delta after the last tick.
Tick ==
    /\ requestRef
    /\ \E delta \in Deltas, v \in VideoStates, landmarks \in Detections :
        /\ now + delta <= MaxNow
        /\ now' = now + delta
        /\ videoTime' = IF v = "new" THEN now + delta ELSE videoTime
        /\ predictWebcam(now + delta, lastFrameTime, v # "notready",
                         IF v = "new" THEN now + delta ELSE videoTime, landmarks, <<>>)
    /\ UNCHANGED <<propVars, setupVars, envVars, scene, probe, shareVars, restVars>>

\* Lines 89-102: the component renders with other props.
Render ==
    /\ \E props \in PropChoices :
        /\ props # <<photoLocked, isPhotoSelected, debugMode>>
        /\ photoLocked' = props[1]
        /\ isPhotoSelected' = props[2]
        /\ debugMode' = props[3]
    /\ Invoke(<<>>)
    /\ UNCHANGED <<frameVars, setupVars, envVars, requestRef, now, videoTime, scene, probe, shareVars, restVars>>

\* Lines 610-619: the cleanup of the effect.
Cleanup ==
    /\ isActive
    /\ pc # "mount"
    /\ isActive' = FALSE
    /\ timers' = timers \ {loadingTimeoutId}
    /\ requestRef' = FALSE
    /\ tracks' = IF srcObject # 0 THEN stopTracks(srcObject) ELSE tracks
    /\ detectors' = IF handLandmarker # 0 THEN [detectors EXCEPT ![handLandmarker] = "closed"]
                    ELSE detectors
    /\ Invoke(<<>>)
    /\ UNCHANGED <<frameVars, propVars, handLandmarker, loadingTimeoutId, retryCount, pc, stream,
                   cdnIdx, srcObject, retryTimer, latePromises, now, videoTime, scene, probe, shareVars, restVars>>

----------------------------------------------------------------------------
(* The share store (src/unnamed/part_001): a share is one JSON document in  *)
(* R2, read with GET and replaced as a whole with PUT.  Of the document the *)
(* model keeps the edit token, the renewal count and the password fields;   *)
(* photos, config, message and the dates are carried along by the code and  *)
(* belong to no statement checked here.                                     *)

\* The browser tabs that hold the share's edit link.
Callers == {1, 2}
\* The edit token of the share, and a wrong one.
Tokens == {"token", "guess"}

\* An optional field that is undefined.
Undefined == <<>>

\* Line 962: `refreshCount >= 7`.
MaxRenewals == 7

\* A password argument: undefined, null, or a string of some length.
Passwords ==
    {[kind |-> "undefined", length |-> 0], [kind |-> "null", length |-> 0]}
        \cup {[kind |-> "string", length |-> n] : n \in {0, 3, 4, 20, 21}}

\* Lines 24-38: the fields of ShareData the model keeps.  refreshCount 0 is the
\* field being absent (line 961 reads it with `|| 0`).
ShareDoc(hash, salt, count) ==
    [editToken |-> "token", refreshCount |-> count, passwordHash |-> hash, passwordSalt |-> salt]

\* A caller that runs no call.
NoCall == [fn |-> "none"]

\* src/src/utils/password.ts lines 20-28.
validatePasswordFormat(password) == password.length >= 4 /\ password.length <= 20

\* src/src/utils/password.ts lines 87-91: the SHA-256 of salt and password, as a term.
hashPassword(password, salt) == [hash |-> <<"sha256", salt, password.length>>, salt |-> salt]

\* Line 414: `if (password)`: null, undefined and the empty string are falsy.
truthy(password) == password.kind = "string" /\ password.length > 0

\* Lines 962-974: the document refreshShareExpiry writes back.
refreshedData(existing) == [existing EXCEPT !.refreshCount = existing.refreshCount + 1]

\* Line 453 with the operands of ?? exchanged.
mergedSalt_KeepOld(password, hashed, existing) ==
    IF password.kind = "null" THEN Undefined
    ELSE IF existing.passwordSalt # Undefined THEN existing.passwordSalt
    ELSE IF hashed # <<>> THEN <<hashed[1].salt>>
    ELSE Undefined

\* Line 452: password === null ? undefined : (passwordHash ?? existing.passwordHash).
mergedHash(password, hashed, existing) ==
    IF password.kind = "null" THEN Undefined
    ELSE IF hashed # <<>> THEN <<hashed[1].hash>>
    ELSE existing.passwordHash

\* Line 453: password === null ? undefined : (passwordSalt ?? existing.passwordSalt).
mergedSalt(password, hashed, existing) ==
    IF password.kind = "null" THEN Undefined
    ELSE IF hashed # <<>> THEN <<hashed[1].salt>>
    ELSE existing.passwordSalt

\* Lines 441-454: the document updateShare writes back.
updatedData(existing, password, hashed) ==
    [existing EXCEPT !.passwordHash = mergedHash(password, hashed, existing),
                     !.passwordSalt = mergedSalt(password, hashed, existing)]

\* The component's variables, which no call on the share store touches.
componentVars == <<frameVars, propVars, setupVars, envVars, requestRef, now, videoTime, scene,
                   calls, frame, probe, setupOutcome>>

\* Caller c's call returns.
Return(c) == pending' = [pending EXCEPT ![c] = NoCall]

\* Lines 938-945: refreshShareExpiry is called and sends its GET.
RefreshCall ==
    /\ started < MaxCalls
    /\ \E c \in Callers, editToken \in Tokens :
        /\ pending[c].fn = "none"
        /\ pending' = [pending EXCEPT ![c] =
                          [fn |-> "refreshShareExpiry", pc |-> "get", editToken |-> editToken]]
    /\ started' = started + 1
    /\ lastUpdate' = <<>>
    /\ UNCHANGED <<stored, salts, renewed, componentVars, uploadVars, restVars>>

\* Lines 947-980: the GET is answered; the call returns or sends its PUT.
RefreshGet ==
    /\ \E c \in Callers, ok \in BOOLEAN :
        /\ pending[c].fn = "refreshShareExpiry" /\ pending[c].pc = "get"
        /\ IF ~ok \/ stored.editToken # pending[c].editToken
                  \/ stored.refreshCount >= MaxRenewals
           THEN Return(c)
           ELSE pending' = [pending EXCEPT ![c] =
                               [fn |-> "refreshShareExpiry", pc |-> "put",
                                editToken |-> pending[c].editToken,
                                body |-> refreshedData(stored)]]
    /\ lastUpdate' = <<>>
    /\ UNCHANGED <<stored, salts, started, renewed, componentVars, uploadVars, restVars>>

\* Lines 976-993: the PUT is answered; R2 has replaced the document, or has not.
RefreshPut ==
    /\ \E c \in Callers, ok \in BOOLEAN :
        /\ pending[c].fn = "refreshShareExpiry" /\ pending[c].pc = "put"
        /\ stored' = IF ok THEN pending[c].body ELSE stored
        /\ renewed' = IF ok THEN renewed + 1 ELSE renewed
        /\ Return(c)
    /\ lastUpdate' = <<>>
    /\ UNCHANGED <<salts, started, componentVars, uploadVars, restVars>>

\* Lines 284 and 467: const maxRetries = 2.
maxRetries == 2

\* String.prototype.includes on a message kept as the sequence of its parts.
includes(message, part) == \E i \in 1..Len(message) : message[i] = part

\* How a fetch of the PUT can end: a response with a status and a body text, or a
\* rejection with an error.  Texts and messages are sequences of parts.
PutAnswers ==
    {[kind |-> "response", status |-> "200", text |-> <<>>]}
        \cup {[kind |-> "response", status |-> "400", text |-> <<"Validation failed">>],
              [kind |-> "response", status |-> "500", text |-> <<>>],
              [kind |-> "response", status |-> "500", text |-> <<"NetworkError">>]}
        \cup {[kind |-> "rejection", name |-> "TypeError", message |-> <<"Failed to fetch">>],
              [kind |-> "rejection", name |-> "TypeError",
               message |-> <<"NetworkError", " when attempting to fetch resource.">>],
              [kind |-> "rejection", name |-> "TypeError", message |-> <<"Load failed">>],
              [kind |-> "rejection", name |-> "AbortError",
               message |-> <<"The user aborted a request.">>]}

\* Lines 323 and 506: new Error(`<prefix>: ${response.status}${serverMessage ? ` -
\* ${serverMessage}` : ''}`), thrown inside the try block of the attempt.
statusError(answer) ==
    [name |-> "Error",
     message |-> <<"failed: ", answer.status>>
                    \o (IF answer.text # <<>> THEN <<" - ">> \o answer.text ELSE <<>>)]

\* Lines 340-342 and 511-513: what the catch block of an attempt receives.
caught(answer) ==
    IF answer.kind = "rejection"
    THEN [name |-> answer.name, message |-> answer.message]
    ELSE statusError(answer)

\* Lines 349 and 520 without the test of the message.
retries_Any(attempt, error) == attempt < maxRetries

\* Lines 349 and 520: attempt < maxRetries && (message === 'Failed to fetch' ||
\* message.includes('NetworkError')).
retries(attempt, error) ==
    /\ attempt < maxRetries
    /\ error.message = <<"Failed to fetch">> \/ includes(error.message, "NetworkError")

\* Lines 286-357 and 469-528: how one attempt of the PUT ends for the call.
putVerdict(answer, attempt) ==
    IF answer.kind = "response" /\ answer.status = "200" THEN "success"
    ELSE IF answer.kind = "response" /\ answer.status = "400" THEN "failure"
    ELSE IF caught(answer).name = "AbortError" THEN "failure"
    ELSE IF retries(attempt, caught(answer)) THEN "retry"
    ELSE "failure"

\* Caller c's call of fn returns { success } after sending `puts` PUT requests.
Result(c, fn, success, puts) ==
    /\ pending' = [pending EXCEPT ![c] = NoCall]
    /\ lastReturn' = <<[caller |-> c, fn |-> fn, success |-> success, puts |-> puts]>>

\* Lines 391-425: updateShare is called; it validates, hashes and sends its GET.
UpdateCall ==
    /\ started < MaxUpdates
    /\ \E c \in Callers, editToken \in Tokens, password \in Passwords, photosOk \in BOOLEAN :
        /\ pending[c].fn = "none"
        /\ IF ~photosOk \/ (truthy(password) /\ ~validatePasswordFormat(password))
           THEN Result(c, "updateShare", FALSE, 0) /\ UNCHANGED salts
           ELSE /\ pending' = [pending EXCEPT ![c] =
                                  [fn |-> "updateShare", pc |-> "get", editToken |-> editToken,
                                   password |-> password,
                                   hashed |-> IF truthy(password)
                                              THEN <<hashPassword(password, salts + 1)>>
                                              ELSE <<>>]]
                /\ salts' = IF truthy(password) THEN salts + 1 ELSE salts
                /\ lastReturn' = <<>>
    /\ started' = started + 1
    /\ lastUpdate' = <<>>
    /\ lastPut' = <<>>
    /\ UNCHANGED <<stored, renewed, localShare, componentVars, restVars>>

\* Lines 425-466: getShare is answered; the call returns or sends its PUT.
UpdateGet ==
    /\ \E c \in Callers, found \in BOOLEAN, sizeOk \in BOOLEAN :
        /\ pending[c].fn = "updateShare" /\ pending[c].pc = "get"
        /\ IF ~found \/ stored.editToken # pending[c].editToken \/ ~sizeOk
           THEN Result(c, "updateShare", FALSE, 0)
           ELSE /\ pending' = [pending EXCEPT ![c] =
                                  [fn |-> "updateShare", pc |-> "put",
                                   editToken |-> pending[c].editToken,
                                   password |-> pending[c].password,
                                   existing |-> stored,
                                   body |-> updatedData(stored, pending[c].password,
                                                        pending[c].hashed),
                                   attempt |-> 0]]
                /\ lastReturn' = <<>>
    /\ lastUpdate' = <<>>
    /\ lastPut' = <<>>
    /\ UNCHANGED <<stored, salts, started, renewed, localShare, componentVars, restVars>>

\* Lines 469-550: an attempt of updateShare's PUT ends: success, a retry after 2 s, or
\* failure.
UpdatePut ==
    /\ \E c \in Callers, answer \in PutAnswers :
        /\ pending[c].fn = "updateShare" /\ pending[c].pc = "put"
        /\ lastPut' = <<[caller |-> c, fn |-> "updateShare",
                         attempt |-> pending[c].attempt, answer |-> answer]>>
        /\ \E verdict \in {putVerdict(answer, pending[c].attempt)} :
            IF verdict = "success" THEN
                /\ stored' = pending[c].body
                /\ lastUpdate' = <<[password |-> pending[c].password,
                                    existing |-> pending[c].existing,
                                    written |-> pending[c].body]>>
                /\ Result(c, "updateShare", TRUE, pending[c].attempt + 1)
            ELSE IF verdict = "retry" THEN
                /\ pending' = [pending EXCEPT ![c].attempt = pending[c].attempt + 1]
                /\ lastUpdate' = <<>>
                /\ lastReturn' = <<>>
                /\ UNCHANGED stored
            ELSE
                /\ Result(c, "updateShare", FALSE, pending[c].attempt + 1)
                /\ lastUpdate' = <<>>
                /\ UNCHANGED stored
    /\ UNCHANGED <<salts, started, renewed, localShare, componentVars, restVars>>

\* Lines 208-283: uploadShare is called; it checks the configuration, the photos, the
\* password and the local share record, builds the document under a fresh id, checks
\* its size and sends the first PUT.  The document goes to a key of its own in R2.
UploadCall ==
    /\ started < MaxUpdates
    /\ \E c \in Callers, configured \in BOOLEAN, photosOk \in BOOLEAN,
          password \in Passwords, sizeOk \in BOOLEAN :
        /\ pending[c].fn = "none"
        /\ IF \/ ~configured \/ ~photosOk
              \/ (truthy(password) /\ ~validatePasswordFormat(password))
              \/ localShare # <<>>
              \/ ~sizeOk
           THEN Result(c, "uploadShare", FALSE, 0)
           ELSE /\ pending' = [pending EXCEPT ![c] =
                                  [fn |-> "uploadShare", pc |-> "put",
                                   shareId |-> started + 1, attempt |-> 0]]
                /\ lastReturn' = <<>>
    /\ started' = started + 1
    /\ lastUpdate' = <<>>
    /\ lastPut' = <<>>
    /\ UNCHANGED <<stored, salts, renewed, localShare, componentVars, restVars>>

\* Lines 286-378: an attempt of uploadShare's PUT ends: success and the local record
\* saved (localStorage.setItem may throw, which the catch block of the attempt
\* receives), a retry after 2 s, or failure.
UploadPut ==
    /\ \E c \in Callers, answer \in PutAnswers, saved \in BOOLEAN :
        /\ pending[c].fn = "uploadShare" /\ pending[c].pc = "put"
        /\ lastPut' = <<[caller |-> c, fn |-> "uploadShare",
                         attempt |-> pending[c].attempt, answer |-> answer]>>
        /\ \E verdict \in {putVerdict(answer, pending[c].attempt)} :
            IF verdict = "success" /\ saved THEN
                /\ localShare' = <<[shareId |-> pending[c].shareId]>>
                /\ Result(c, "uploadShare", TRUE, pending[c].attempt + 1)
            ELSE IF verdict = "retry" THEN
                /\ pending' = [pending EXCEPT ![c].attempt = pending[c].attempt + 1]
                /\ lastReturn' = <<>>
                /\ UNCHANGED localShare
            ELSE
                /\ Result(c, "uploadShare", FALSE, pending[c].attempt + 1)
                /\ UNCHANGED localShare
    /\ lastUpdate' = <<>>
    /\ UNCHANGED <<stored, salts, started, renewed, componentVars, restVars>>

\* No share traffic: the share as uploadShare left it, without a password.
ShareAtRest ==
    /\ stored = ShareDoc(Undefined, Undefined, 0)
    /\ pending = [c \in Callers |-> NoCall]
    /\ salts = 0 /\ started = 0 /\ renewed = 0
    /\ lastUpdate = <<>>
    /\ localShare = <<[shareId |-> 0]>>
    /\ lastPut = <<>> /\ lastReturn = <<>>

----------------------------------------------------------------------------
(* The storage worker (src/unnamed/part_004, lines 383-627) at one key      *)
(* shares/<id>.json.  Each request runs the fetch handler; the handler      *)
(* gives way at every await, so the handlers of concurrent requests         *)
(* interleave between their reads and writes of the bucket.                 *)

\* At most MaxRequests requests are received.
MaxRequests == 3

\* What a request carries as its edit token: one of two well-formed tokens, a string
\* that is not 32 letters and digits, or nothing.
RequestTokens == {"token", "guess", "malformed", "missing"}

\* Lines 294-296.
validateEditToken(token) == token \in {"token", "guess"}

\* Lines 565-582: the status with which a PUT is refused before the bucket is read, or
\* "" when it is not: unparsable JSON, validation errors (among them a missing or
\* malformed editToken, lines 309 and 316), or another id in the body.
putRefusal(token, bodyOk) ==
    IF ~bodyOk \/ token = "missing" \/ ~validateEditToken(token) THEN "400" ELSE ""

\* Lines 602-611: the status with which a DELETE is refused before the bucket is read.
deleteRefusal(token) ==
    IF token = "missing" THEN "401" ELSE IF ~validateEditToken(token) THEN "400" ELSE ""

\* The handler of request r moves on.
Handler(r, pcv, status) == requests' = [requests EXCEPT ![r].pc = pcv, ![r].status = status]

\* Lines 384-582 and 601-611: a PUT or DELETE for the key arrives and is validated.
WorkerFetch ==
    /\ Len(requests) < MaxRequests
    /\ \E method \in {"PUT", "DELETE"}, token \in RequestTokens, bodyOk \in BOOLEAN :
        \E refusal \in {IF method = "PUT" THEN putRefusal(token, bodyOk)
                         ELSE deleteRefusal(token)} :
            requests' = Append(requests,
                               [method |-> method, token |-> token,
                                pc |-> IF refusal = "" THEN "get" ELSE "replied",
                                status |-> refusal])
    /\ lastWrite' = <<>>
    /\ UNCHANGED <<bucket, componentVars, shareVars, timelineVars, dialogVars>>

\* Lines 585-591: a PUT goes on when no object exists or the object's editToken is the
\* body's.
putAllowed(existing, token) == existing = <<>> \/ existing[1].editToken = token

\* Lines 585-591 and 614-622: `await env.R2_BUCKET.get(key)` is answered with the
\* object the bucket holds at that moment, and the handler compares the tokens; a
\* failing bucket operation ends in the catch block (lines 629-632).
WorkerGet ==
    /\ \E r \in 1..Len(requests), ok \in BOOLEAN :
        /\ requests[r].pc = "get"
        /\ IF ~ok THEN Handler(r, "replied", "500")
           ELSE IF requests[r].method = "PUT" THEN
                IF putAllowed(bucket, requests[r].token)
                THEN Handler(r, "put", "")
                ELSE Handler(r, "replied", "401")
           ELSE IF bucket = <<>> THEN Handler(r, "replied", "404")
           ELSE IF bucket[1].editToken # requests[r].token THEN Handler(r, "replied", "401")
           ELSE Handler(r, "delete", "")
    /\ lastWrite' = <<>>
    /\ UNCHANGED <<bucket, componentVars, shareVars, timelineVars, dialogVars>>

\* Lines 594-598: `await env.R2_BUCKET.put(key, JSON.stringify(body))`.
WorkerPut ==
    /\ \E r \in 1..Len(requests), ok \in BOOLEAN :
        /\ requests[r].pc = "put"
        /\ IF ok
           THEN /\ bucket' = <<[editToken |-> requests[r].token]>>
                /\ lastWrite' = <<[method |-> "PUT", token |-> requests[r].token,
                                   over |-> bucket]>>
                /\ Handler(r, "replied", "200")
           ELSE /\ Handler(r, "replied", "500")
                /\ lastWrite' = <<>>
                /\ UNCHANGED bucket
    /\ UNCHANGED <<componentVars, shareVars, timelineVars, dialogVars>>

\* Lines 624-625: `await env.R2_BUCKET.delete(key)`.
WorkerDelete ==
    /\ \E r \in 1..Len(requests), ok \in BOOLEAN :
        /\ requests[r].pc = "delete"
        /\ IF ok
           THEN /\ bucket' = <<>>
                /\ lastWrite' = <<[method |-> "DELETE", token |-> requests[r].token,
                                   over |-> bucket]>>
                /\ Handler(r, "replied", "200")
           ELSE /\ Handler(r, "replied", "500")
                /\ lastWrite' = <<>>
                /\ UNCHANGED bucket
    /\ UNCHANGED <<componentVars, shareVars, timelineVars, dialogVars>>

\* No request at the worker, and no object at the key.
WorkerAtRest == bucket = <<>> /\ requests = <<>> /\ lastWrite = <<>>

----------------------------------------------------------------------------
(* The timeline player, the hook useTimeline (src/unnamed/part_004, lines   *)
(* 43-257).  The hook's state, its two refs and the timers it has set at    *)
(* the browser are the fields of one record, so that clearTimers and        *)
(* playStep are functions applied one after the other as the code calls     *)
(* them.  The steps are a text and the tree; without a photo step           *)
(* photoCounterRef is only ever reset and is left out.                      *)

\* config.steps, by type.  Index 0 is the first step, as in the source.
Steps == <<"text", "tree">>
\* A step lasts Duration ticks of the 50 ms progress interval; progress counts them.
Duration == 2
\* At most MaxTimers timeouts are set.
MaxTimers == 4

\* Lines 49-59: the state and the refs before anything was played.
TimelineIdle ==
    [isPlaying |-> FALSE, currentStepIndex |-> -1, progress |-> 0,
     timerRef |-> 0, progressRef |-> 0, timeouts |-> {}, intervals |-> {}, made |-> 0]

\* Lines 61-71: clearTimers cancels the timeout and the interval the refs point to.
clearTimers(t) ==
    [t EXCEPT !.timeouts = {x \in t.timeouts : x.id # t.timerRef},
              !.timerRef = 0,
              !.intervals = {x \in t.intervals : x.id # t.progressRef},
              !.progressRef = 0]

\* Lines 85-117: playStep ends the playback for an index outside the steps, and
\* otherwise shows the step and sets the timeout of its delay, keeping its id in
\* timerRef.
playStep(t, index) ==
    IF index < 0 \/ index >= Len(Steps)
    THEN [t EXCEPT !.isPlaying = FALSE, !.currentStepIndex = -1, !.progress = 0]
    ELSE [t EXCEPT !.isPlaying = TRUE, !.currentStepIndex = index, !.progress = 0,
                   !.timerRef = t.made + 1,
                   !.timeouts = t.timeouts \cup {[id |-> t.made + 1, index |-> index]},
                   !.made = t.made + 1]

\* Lines 119-144: one call of the interval's callback for the step `index`, `elapsed`
\* ticks after its start.
progressTick(t, index, elapsed) ==
    IF elapsed < Duration THEN [t EXCEPT !.progress = elapsed]
    ELSE IF Steps[index + 1] # "tree"
         THEN playStep(clearTimers([t EXCEPT !.progress = Duration]), index + 1)
    ELSE IF config.loop
         THEN playStep(clearTimers([t EXCEPT !.progress = Duration]), 0)
    ELSE [clearTimers(t) EXCEPT !.isPlaying = FALSE, !.progress = Duration]

\* The player moves to t, within the bound on timers.
Player(t) ==
    /\ t.made <= MaxTimers
    /\ timeline' = t
    /\ UNCHANGED <<config, componentVars, shareVars, workerVars, dialogVars>>

\* Lines 149-156: play() starts from the first step.
play(t) == playStep(t, 0)

TimelinePlay ==
    /\ Player(play(timeline))
    /\ quiet' = FALSE

\* Lines 158-161.
TimelinePause ==
    /\ Player([clearTimers(timeline) EXCEPT !.isPlaying = FALSE])
    /\ quiet' = TRUE

\* Lines 163-173.
TimelineStop ==
    /\ Player([clearTimers(timeline) EXCEPT !.isPlaying = FALSE, !.currentStepIndex = -1,
                                            !.progress = 0])
    /\ quiet' = TRUE

\* Lines 175-180.
TimelineNext ==
    /\ Player(playStep(clearTimers(timeline),
                       IF timeline.currentStepIndex + 1 < Len(Steps) - 1
                       THEN timeline.currentStepIndex + 1 ELSE Len(Steps) - 1))
    /\ quiet' = FALSE

\* Lines 182-187.
TimelinePrev ==
    /\ Player(playStep(clearTimers(timeline),
                       IF timeline.currentStepIndex - 1 > 0
                       THEN timeline.currentStepIndex - 1 ELSE 0))
    /\ quiet' = FALSE

\* Lines 189-192: goTo with an index inside or just outside the steps.
TimelineGoTo ==
    /\ \E index \in -1..Len(Steps) : Player(playStep(clearTimers(timeline), index))
    /\ quiet' = FALSE

\* Lines 117-119 and 145: a timeout set by playStep fires and starts the progress
\* interval of its step, keeping its id in progressRef.  Interval ids are negative.
TimeoutFires ==
    /\ \E x \in timeline.timeouts :
        Player([timeline EXCEPT !.timeouts = timeline.timeouts \ {x},
                                !.progressRef = -x.id,
                                !.intervals = timeline.intervals
                                    \cup {[id |-> -x.id, index |-> x.index, elapsed |-> 0]}])
    /\ UNCHANGED quiet

\* Lines 119-144: a progress interval fires.
IntervalFires ==
    /\ \E x \in timeline.intervals :
        \E elapsed \in {IF x.elapsed < Duration THEN x.elapsed + 1 ELSE Duration} :
            Player(progressTick([timeline EXCEPT
                                    !.intervals = (timeline.intervals \ {x})
                                        \cup {[x EXCEPT !.elapsed = elapsed]}],
                                x.index, elapsed))
    /\ UNCHANGED quiet

\* Lines 194-200: the hook mounted; with enabled and autoPlay the effect has called
\* playStep(0).
TimelineMounted ==
    /\ config \in [loop : BOOLEAN, autoPlay : BOOLEAN]
    /\ timeline = IF config.autoPlay THEN playStep(TimelineIdle, 0) ELSE TimelineIdle
    /\ quiet = FALSE

\* No timeline is configured.
TimelineAtRest ==
    /\ config = [loop |-> FALSE, autoPlay |-> FALSE]
    /\ timeline = TimelineIdle
    /\ quiet = FALSE

----------------------------------------------------------------------------
(* The password dialog (src/src/components/ui/PasswordDialog.tsx).  React   *)
(* renders between two events, so a handler sees the state its predecessor  *)
(* set; the handleSubmit suspended at its await keeps the `attempts` of the *)
(* render it was created in.  Times are in seconds.                         *)

\* Line 13.
MAX_ATTEMPTS == 5
\* Line 14: 30000 ms.
LOCKOUT_DURATION == 30
\* Date.now() runs from 0 to MaxClock seconds.
MaxClock == 32

\* What the input holds: nothing, blanks, or a password.
Typed == {"", " ", "secret"}

\* String.prototype.trim.
trim(password) == IF password = " " THEN "" ELSE password

\* Lines 21-26.
DialogOpened ==
    [password |-> "", error |-> "null", loading |-> FALSE, attempts |-> 0,
     lockedUntil |-> 0, countdown |-> 0]

\* Line 72 with > for >=.
locksAt_Late(newAttempts) == newAttempts > MAX_ATTEMPTS

\* Line 72.
locksAt(newAttempts) == newAttempts >= MAX_ATTEMPTS

\* The dialog moves to d with the verification v in flight and the history a.
Dialog(d, v, a) ==
    /\ dialog' = d /\ verification' = v /\ audit' = a
    /\ UNCHANGED <<componentVars, shareVars, workerVars, timelineVars>>

\* Line 112: the user edits the input, which is disabled while loading or locked.
DialogTypes ==
    /\ ~dialog.loading /\ dialog.lockedUntil = 0
    /\ \E p \in Typed : Dialog([dialog EXCEPT !.password = p], verification, audit)
    /\ UNCHANGED clock

\* Lines 49-62: handleSubmit up to its await.
DialogSubmits ==
    /\ IF dialog.loading \/ dialog.lockedUntil # 0
       THEN Dialog(dialog, verification, audit)
       ELSE IF trim(dialog.password) = ""
       THEN Dialog([dialog EXCEPT !.error = "empty"], verification, audit)
       ELSE Dialog([dialog EXCEPT !.loading = TRUE, !.error = "null"],
                   <<[attempts |-> dialog.attempts]>>, audit)
    /\ UNCHANGED clock

\* Lines 62-83: verifySharePassword returns valid or not (it catches its own errors,
\* src/unnamed/part_001 lines 659-662), and saveVerification stores or throws.
DialogVerified ==
    /\ verification # <<>>
    /\ \E valid \in BOOLEAN, saved \in BOOLEAN :
        IF valid /\ saved THEN
            Dialog([dialog EXCEPT !.loading = FALSE], <<>>,
                   [audit EXCEPT !.valid = TRUE, !.saved = TRUE, !.onSuccess = TRUE])
        ELSE IF valid THEN
            Dialog([dialog EXCEPT !.loading = FALSE, !.error = "failed"], <<>>,
                   [audit EXCEPT !.valid = TRUE])
        ELSE
            \E newAttempts \in {verification[1].attempts + 1} :
                IF locksAt(newAttempts)
                THEN Dialog([dialog EXCEPT !.loading = FALSE, !.attempts = newAttempts,
                                           !.lockedUntil = clock + LOCKOUT_DURATION,
                                           !.countdown = LOCKOUT_DURATION,
                                           !.error = "locked"],
                            <<>>,
                            [audit EXCEPT !.failed = audit.failed + 1, !.lockedAt = clock])
                ELSE Dialog([dialog EXCEPT !.loading = FALSE, !.attempts = newAttempts,
                                           !.error = "wrong"],
                            <<>>,
                            [audit EXCEPT !.failed = audit.failed + 1])
    /\ audit'.failed <= MAX_ATTEMPTS + 1
    /\ UNCHANGED clock

\* Lines 29-47: a second passes; while the dialog is locked the interval of the
\* effect calls updateCountdown, which ends the lock once no time remains.
DialogSecond ==
    /\ clock < MaxClock
    /\ clock' = clock + 1
    /\ IF dialog.lockedUntil = 0 THEN Dialog(dialog, verification, audit)
       ELSE IF dialog.lockedUntil - clock' <= 0
       THEN Dialog([dialog EXCEPT !.lockedUntil = 0, !.countdown = 0, !.attempts = 0,
                                  !.error = "null"],
                   verification, [audit EXCEPT !.failed = 0])
       ELSE Dialog([dialog EXCEPT !.countdown = dialog.lockedUntil - clock'],
                   verification, audit)

\* The dialog as it opens.
DialogAtRest ==
    /\ dialog = DialogOpened
    /\ clock = 0
    /\ verification = <<>>
    /\ audit = [failed |-> 0, lockedAt |-> -1, valid |-> FALSE, saved |-> FALSE,
                onSuccess |-> FALSE]

OthersAtRest == WorkerAtRest /\ TimelineAtRest /\ DialogAtRest

----------------------------------------------------------------------------
(* Specifications.                                                          *)

\* Lines 57-73: the refs as the component creates them.
InitRefs ==
    /\ lastPalmPos = <<>>
    /\ palmHistory = <<>>
    /\ lastVideoTime = -1
    /\ gestureStreak = [name |-> "null", count |-> 0]
    /\ pinchCooldown = 0
    /\ pinchActive = FALSE
    /\ lastPinchPos = <<>>
    /\ lastFrameTime = 0
    /\ rotationBoost = [n |-> 0, e |-> 0]
    /\ lastHandScale = <<>>
    /\ pinchCount = 0
    /\ runPinches = 0

\* Lines 48 and 172-176, with the flags as the component's caller first passes them.
InitMounted ==
    /\ InitRefs
    /\ photoLocked = FALSE /\ isPhotoSelected = FALSE /\ debugMode = FALSE
    /\ isActive = TRUE /\ handLandmarker = 0 /\ requestRef = FALSE
    /\ loadingTimeoutId = 0 /\ retryCount = 0 /\ pc = "mount" /\ stream = 0 /\ cdnIdx = 0
    /\ srcObject = 0
    /\ tracks = [r \in Runs |-> "none"]
    /\ detectors = [d \in DetectorIds |-> "none"]
    /\ timers = {} /\ retryTimer = FALSE /\ latePromises = {}
    /\ now = 0 /\ videoTime = 0
    /\ scene = "few"
    /\ calls = <<>>
    /\ setupOutcome = "pending"
    /\ frame = <<>>
    /\ probe = <<>>

\* The component mounts while no call on the share store is running.
InitLife == InitMounted /\ ShareAtRest /\ OthersAtRest

NextLife ==
    \/ UseEffect \/ RetryTimer \/ LoadingTimeout \/ CameraSettles \/ LocalWasmSettles
    \/ CdnSettles \/ GpuSettles \/ CpuSettles \/ LatePromiseResolves \/ LoadedData
    \/ StartLoop \/ Tick \/ Cleanup

\* The effect from its start to its tear-down.
SpecLife == InitLife /\ [][NextLife]_vars

\* The session whose set-up went through at once (camera granted, local WASM and
\* GPU model loaded, loadeddata fired): the frame loop is about to start.
InitLoop(family) ==
    /\ InitRefs
    /\ photoLocked = FALSE /\ isPhotoSelected = FALSE /\ debugMode = FALSE
    /\ isActive = TRUE /\ handLandmarker = 1 /\ requestRef = FALSE
    /\ loadingTimeoutId = 1 /\ retryCount = 0 /\ pc = "raf" /\ stream = 1 /\ cdnIdx = 0
    /\ srcObject = 1
    /\ tracks = [r \in Runs |-> IF r = 1 THEN "live" ELSE "none"]
    /\ detectors = [d \in DetectorIds |-> IF d = 1 THEN "open" ELSE "none"]
    /\ timers = {1} /\ retryTimer = FALSE /\ latePromises = {}
    /\ now = 0 /\ videoTime = 0
    /\ scene = family
    /\ calls = <<>>
    /\ setupOutcome = "pending"
    /\ ShareAtRest /\ OthersAtRest
    /\ frame = <<>>
    /\ probe = <<>>

\* The classifier's inputs: every finger state, both pinch verdicts, and thumb
\* offsets (thousandths) on both sides of and on the edges of the dead zone.
FingerStates == [thumb : BOOLEAN, index : BOOLEAN, middle : BOOLEAN, ring : BOOLEAN,
                 pinky : BOOLEAN]
ThumbOffsets == {-51, -50, 0, 50, 51}

\* Lines 444-473 applied to one choice of the inputs.
Classify ==
    /\ \E fingers \in FingerStates, pinch \in BOOLEAN, diffY \in ThumbOffsets :
          probe' = <<[landmarks |-> <<>>, fingers |-> fingers, isPinch |-> pinch,
                      thumbDiffY |-> diffY,
                      detectedGesture |-> classify(fingers, pinch, diffY)]>>
    /\ UNCHANGED <<frameVars, propVars, setupVars, envVars, requestRef, now, videoTime, scene,
                   calls, frame, setupOutcome, shareVars, restVars>>

\* Hands of every shape the thumb and the fingers can take, at the usual size and,
\* farther from the camera, at a quarter of it.
ShapeHands ==
    {Hand(Shape(t, i, m, r, p), 500, 800, k) :
        t \in {"up", "down", "flat", "pinch", "in"}, i \in {"ext", "curl", "pinch"},
        m \in {"ext", "curl"}, r \in {"ext", "curl"}, p \in {"ext", "curl"}, k \in {1, 4}}

\* Lines 408-473 applied to one hand: the finger states, the pinch test and the chain.
ClassifyHand ==
    /\ \E landmarks \in ShapeHands :
          probe' = <<[landmarks |-> <<landmarks>>,
                      fingers |-> getFingerState(landmarks, landmarks[0]),
                      isPinch |-> isPinch(landmarks),
                      thumbDiffY |-> thumbDiffY(landmarks),
                      detectedGesture |-> detectedGestureOf(landmarks)]>>
    /\ UNCHANGED <<frameVars, propVars, setupVars, envVars, requestRef, now, videoTime, scene,
                   calls, frame, setupOutcome, shareVars, restVars>>

NextClassify == Classify \/ ClassifyHand

\* The classifier on its own, over all its inputs.
SpecClassify == InitLoop("labels") /\ [][NextClassify]_vars

Init == InitLoop("labels")
Next == StartLoop \/ Tick \/ Render
\* The frame loop fed hands of every label, under every combination of the props.
Spec == Init /\ [][Next]_vars
\* The frame loop fed pinches at several places, at two frame intervals.
SpecPinch == InitLoop("pinch") /\ [][Next]_vars
\* The frame loop fed open palms that move and grow, the caller locking and unlocking.
SpecPalm == InitLoop("palm") /\ [][Next]_vars
\* The frame loop fed open palms that move by the pan threshold, a little more, or not.
SpecPan == InitLoop("pan") /\ [][Next]_vars
\* The frame loop fed an open palm that drifts sideways at a constant speed.
SpecRamp == InitLoop("ramp") /\ [][Next]_vars
\* The frame loop fed pinches by a video that stalls: ticks without a new frame.
SpecStall == InitLoop("stall") /\ [][Next]_vars

\* Lines 208-270: the share as uploadShare wrote it, without or with a password,
\* and no call running.
ShareInFlight ==
    /\ InitMounted /\ OthersAtRest
    /\ stored \in {ShareDoc(Undefined, Undefined, 0),
                   ShareDoc(<<hashPassword([kind |-> "string", length |-> 4], 0).hash>>,
                            <<hashPassword([kind |-> "string", length |-> 4], 0).salt>>, 0)}
    /\ pending = [c \in Callers |-> NoCall]
    /\ salts = 0 /\ started = 0 /\ renewed = 0
    /\ lastUpdate = <<>>
    /\ lastPut = <<>> /\ lastReturn = <<>>

\* The browser that made the share: its local share record is there.
InitShare == ShareInFlight /\ localShare = <<[shareId |-> 0]>>

\* Lines 131-138: a browser with or without a local share record.
InitUpload == ShareInFlight /\ localShare \in {<<>>, <<[shareId |-> 0]>>}

NextRefresh == RefreshCall \/ RefreshGet \/ RefreshPut
\* Two holders of the edit link renew the share, their calls interleaved at will.
SpecRefresh == InitShare /\ [][NextRefresh]_vars

NextUpdate == UpdateCall \/ UpdateGet \/ UpdatePut
\* Two holders of the edit link update the share with every kind of password argument.
SpecUpdate == InitShare /\ [][NextUpdate]_vars

\* The key is free, or holds a share stored with the token "token".
InitWorker ==
    /\ InitMounted /\ ShareAtRest /\ TimelineAtRest /\ DialogAtRest
    /\ bucket \in {<<>>, <<[editToken |-> "token"]>>}
    /\ requests = <<>> /\ lastWrite = <<>>

NextWorker == WorkerFetch \/ WorkerGet \/ WorkerPut \/ WorkerDelete
\* PUT and DELETE requests for one key, handled concurrently.
SpecWorker == InitWorker /\ [][NextWorker]_vars

InitTimeline == InitMounted /\ ShareAtRest /\ WorkerAtRest /\ DialogAtRest /\ TimelineMounted

NextTimeline ==
    \/ TimelinePlay \/ TimelinePause \/ TimelineStop \/ TimelineNext \/ TimelinePrev
    \/ TimelineGoTo \/ TimeoutFires \/ IntervalFires
\* The player under every sequence of its six actions and its timers.
SpecTimeline == InitTimeline /\ [][NextTimeline]_vars

InitDialog == InitMounted /\ ShareAtRest /\ WorkerAtRest /\ TimelineAtRest /\ DialogAtRest

NextDialog == DialogTypes \/ DialogSubmits \/ DialogVerified \/ DialogSecond
\* The dialog under every sequence of edits, submissions, answers and seconds.
SpecDialog == InitDialog /\ [][NextDialog]_vars

NextUpload == UploadCall \/ UploadPut
\* Two tabs of one browser, sharing its localStorage, upload with every kind of
\* argument and every answer to the PUT.
SpecUpload == InitUpload /\ [][NextUpload]_vars

NextPut == UploadCall \/ UploadPut \/ UpdateCall \/ UpdateGet \/ UpdatePut
\* Uploads and updates whose requests are all answered in the end: every fetch of a
\* PUT settles or is aborted by its timer after 10 minutes (lines 288 and 471).
SpecPut ==
    /\ InitUpload /\ [][NextPut]_vars
    /\ WF_vars(UploadPut) /\ WF_vars(UpdateGet) /\ WF_vars(UpdatePut)

----------------------------------------------------------------------------
(* What a state shows of the step that led to it.                           *)

\* The last step invoked the callback cb.
Invoked(cb) == \E i \in 1..Len(calls) : calls[i].cb = cb

\* The last step processed a frame in which a hand was detected.
HandFrame ==
    /\ frame # <<>>
    /\ frame[1].landmarks # <<>>
    /\ DOMAIN frame[1].landmarks[1] = 0..20

\* The landmarks of that hand, and the label the classifier gave them.
FrameHand == frame[1].landmarks[1]
FrameLabel == frame[1].detectedGesture

\* The stabilized gesture of the frame is g: the label is g and its streak has
\* reached g's threshold.
StabilizedOn(g) ==
    HandFrame /\ FrameLabel = g /\ gestureStreak.name = g /\ gestureStreak.count >= thresholdOf(g)

\* The thresholds as the specification lists them.
ListedThreshold ==
    [g \in GestureName \ {"None"} |->
        CASE g \in {"Pinch", "Open_Palm", "Closed_Fist"} -> 2
          [] g = "Pointing_Up" -> 3
          [] g = "Victory" -> 4
          [] OTHER -> 5]

\* The pinch cooldown a frame starting now sees, delta after the last frame.
CooldownAt(delta) == IF pinchCooldown > 0 THEN pinchCooldown - delta ELSE pinchCooldown

\* p is more than (at least) a tenth of the frame away from the last fired position
\* on the x or the y axis.
FartherThanTenth(p) ==
    \/ 10 * Abs(p.x - lastPinchPos[1].x) > PinchOne
    \/ 10 * Abs(p.y - lastPinchPos[1].y) > PinchOne
AtLeastTenth(p) ==
    \/ 10 * Abs(p.x - lastPinchPos[1].x) >= PinchOne
    \/ 10 * Abs(p.y - lastPinchPos[1].y) >= PinchOne

----------------------------------------------------------------------------
(* The claims.                                                              *)

\* C1: onGesture is invoked once per stabilization streak: a frame invokes it only
\* if it is the frame on which the streak of its label reaches the label's threshold,
\* never on the later frames of the same unbroken run.
C1_GestureOncePerStreak ==
    Invoked("onGesture") => gestureStreak.count = ListedThreshold[gestureStreak.name]

\* C2: a frame classified L (not None) that follows k - 1 frames classified L in a
\* row has streak count k, and is stable exactly if k >= threshold(L), with the
\* thresholds Pinch 2, Open_Palm 2, Closed_Fist 2, Pointing_Up 3, Victory 4,
\* Thumb_Up 5, Thumb_Down 5, ILoveYou 5; so stability turns true once in a run and
\* stays.  Stability shows in the dispatch: onGesture for the labels other than
\* Pinch, onPinch for a Pinch that nothing else debounces; and the debug status
\* line prints the threshold used.
C2_StableIffThreshold ==
    [][ (HandFrame' /\ FrameLabel' # "None") =>
            /\ gestureStreak'.name = FrameLabel'
            /\ gestureStreak'.count =
                    IF gestureStreak.name = FrameLabel' THEN gestureStreak.count + 1 ELSE 1
            /\ FrameLabel' # "Pinch" =>
                    (Invoked("onGesture")' <=>
                        gestureStreak'.count >= ListedThreshold[FrameLabel'])
            /\ (FrameLabel' = "Pinch" /\ ~pinchActive /\ lastPinchPos = <<>>
                    /\ pinchCooldown <= 0) =>
                    (Invoked("onPinch")' <=> gestureStreak'.count >= ListedThreshold["Pinch"])
            /\ \A i \in 1..Len(calls') :
                    (calls'[i].cb = "onStatus" /\ calls'[i].g = FrameLabel') =>
                        /\ calls'[i].x = gestureStreak'.count
                        /\ calls'[i].y = ListedThreshold[FrameLabel']
      ]_vars

\* A Victory streak turns stable on its fourth frame.
C2_Witness ==
    /\ HandFrame /\ FrameLabel = "Victory"
    /\ gestureStreak = [name |-> "Victory", count |-> 4]
    /\ Invoked("onGesture")

\* C3: a frame invokes onPinch only if its label is Pinch and stable, the cooldown
\* has reached zero, and no last fired position is recorded or the pinch position
\* is more than 0.1 away from it on the x or the y axis.
C3_PinchOnlyWhen ==
    [][ Invoked("onPinch")' =>
            /\ HandFrame' /\ FrameLabel' = "Pinch"
            /\ gestureStreak'.name = "Pinch"
            /\ gestureStreak'.count >= ListedThreshold["Pinch"]
            /\ CooldownAt(now' - lastFrameTime) <= 0
            /\ IF lastPinchPos = <<>> THEN TRUE ELSE FartherThanTenth(pinchPos(FrameHand'))
      ]_vars

\* onPinch fires on the frame a Pinch streak turns stable.
C3_Witness ==
    /\ Invoked("onPinch")
    /\ gestureStreak = [name |-> "Pinch", count |-> 2]
    /\ pinchCooldown = PinchCooldown

\* C4: while the position P of the last fire is recorded, a Pinch frame at P that
\* comes before the 0.3 s cooldown has elapsed does not invoke onPinch.
C4_NoRefireSamePlace ==
    [][ ( /\ HandFrame' /\ FrameLabel' = "Pinch"
          /\ lastPinchPos = <<pinchPos(FrameHand')>>
          /\ CooldownAt(now' - lastFrameTime) > 0 ) => ~Invoked("onPinch")'
      ]_vars

\* A stable Pinch frame at the place of the last fire, the cooldown still running.
C4_Witness ==
    /\ StabilizedOn("Pinch")
    /\ lastPinchPos = <<pinchPos(FrameHand)>>
    /\ pinchCooldown > 0 /\ pinchCooldown < PinchCooldown
    /\ ~Invoked("onPinch")

\* C5 as stated: with the position P of the last fire recorded, a stable Pinch frame
\* at least 0.1 away from P on which the cooldown has elapsed invokes onPinch.
C5_RefireElsewhere_Stated ==
    [][ ( /\ HandFrame' /\ FrameLabel' = "Pinch"
          /\ gestureStreak'.count >= ListedThreshold["Pinch"]
          /\ lastPinchPos # <<>>
          /\ CooldownAt(now' - lastFrameTime) <= 0
          /\ IF lastPinchPos = <<>> THEN FALSE ELSE AtLeastTenth(pinchPos(FrameHand')) )
        => Invoked("onPinch")'
      ]_vars

\* C5: with the position P of the last fire recorded, a stable Pinch frame more than
\* 0.1 away from P on the x or the y axis, on which the cooldown has elapsed and
\* the active flag is clear, invokes onPinch.
C5_RefireElsewhere ==
    [][ ( /\ HandFrame' /\ FrameLabel' = "Pinch"
          /\ gestureStreak'.count >= ListedThreshold["Pinch"]
          /\ lastPinchPos # <<>>
          /\ ~pinchActive
          /\ CooldownAt(now' - lastFrameTime) <= 0
          /\ IF lastPinchPos = <<>> THEN FALSE ELSE FartherThanTenth(pinchPos(FrameHand')) )
        => Invoked("onPinch")'
      ]_vars

\* Six frames a tenth of a second apart: a pinch turns stable and fires, a fist turns
\* stable and clears the active flag, a pinch 0.12 to the side turns stable and fires.
C5_Witness ==
    /\ Invoked("onPinch")
    /\ pinchCount = 2
    /\ now = 5
    /\ lastPinchPos = <<pinchPos(Hand(PinchShape, 380, 800, 4))>>
    /\ palmHistory = <<rawPalm(Hand(FistShape, 500, 700, 4)), rawPalm(Hand(FistShape, 500, 700, 4)),
                       rawPalm(Hand(PinchShape, 380, 800, 4)), rawPalm(Hand(PinchShape, 380, 800, 4))>>

\* C6: onPalmMove is invoked only on frames whose stabilized gesture is Open_Palm.
C6_PanOnlyOnStablePalm == Invoked("onPalmMove") => StabilizedOn("Open_Palm")

\* C7: onZoom is invoked only on frames whose stabilized gesture is Open_Palm.
C7_ZoomOnlyOnStablePalm == Invoked("onZoom") => StabilizedOn("Open_Palm")

\* C8: a frame processed while photoLocked is set invokes neither onPalmMove nor
\* onZoom.
C8_LockedNoPanZoom == photoLocked => ~Invoked("onPalmMove") /\ ~Invoked("onZoom")

\* A stable open palm that has just moved and grown, the photo locked.
C8_Witness ==
    /\ photoLocked
    /\ StabilizedOn("Open_Palm")
    /\ Len(palmHistory) >= 2
    /\ palmHistory[Len(palmHistory)] # palmHistory[Len(palmHistory) - 1]
    /\ FrameHand = Hand(OpenShape, 500, 800, 5)

\* C9: once the tear-down has run, no step invokes an external callback.
C9_SilentAfterTeardown == ~isActive => calls = <<>>

\* The tear-down has run and nothing of the set-up is pending any more.
Quiescent ==
    /\ ~isActive
    /\ pc = "idle"
    /\ ~retryTimer
    /\ timers = {}
    /\ latePromises = {}

\* C10: once the tear-down has run and every pending continuation has finished,
\* every acquired camera stream is stopped and every created detector is closed.
C10_NothingLeaked ==
    Quiescent =>
        /\ \A r \in Runs : tracks[r] # "live"
        /\ \A d \in DetectorIds : detectors[d] # "open"

\* C11: a frame whose landmark list holds fewer than 21 points is handled as a frame
\* without a hand: the streak is reset, the palm history is cleared, onMove is
\* invoked and the next frame is requested.
C11_MalformedIsNoHand ==
    (frame # <<>> /\ frame[1].landmarks = <<ShortHand>>) =>
        /\ gestureStreak = [name |-> "null", count |-> 0]
        /\ palmHistory = <<>>
        /\ Invoked("onMove")
        /\ requestRef

\* The rules of the classifier as the specification lists them, in its order.
RuleHolds(n, f, pinch) ==
    CASE n = 1 -> pinch /\ f.middle
      [] n = 2 -> f.index /\ f.middle /\ f.ring /\ f.pinky /\ f.thumb
      [] n = 3 -> Cardinality({d \in {"index", "middle", "ring", "pinky"} : f[d]}) <= 1 /\ ~f.thumb
      [] n = 4 -> f.thumb /\ ~f.index /\ ~f.middle /\ ~f.ring /\ ~f.pinky
      [] n = 5 -> f.index /\ f.middle /\ ~f.ring /\ ~f.pinky
      [] n = 6 -> f.index /\ ~f.middle /\ ~f.ring /\ ~f.pinky
      [] n = 7 -> f.thumb /\ f.index /\ f.pinky /\ ~f.middle /\ ~f.ring
      [] OTHER -> TRUE

RuleLabel(n, diffY) ==
    CASE n = 1 -> "Pinch"
      [] n = 2 -> "Open_Palm"
      [] n = 3 -> "Closed_Fist"
      [] n = 4 -> IF diffY < -50 THEN "Thumb_Up" ELSE IF diffY > 50 THEN "Thumb_Down"
                  ELSE "Closed_Fist"
      [] n = 5 -> "Victory"
      [] n = 6 -> "Pointing_Up"
      [] n = 7 -> "ILoveYou"
      [] OTHER -> "None"

FirstMatch(f, pinch, diffY) ==
    RuleLabel(CHOOSE n \in 1..8 :
                  RuleHolds(n, f, pinch) /\ \A k \in 1..(n - 1) : ~RuleHolds(k, f, pinch),
              diffY)

\* C12: for every finger state, pinch verdict and thumb offset the classifier gives
\* the label of the first rule that matches, in the order Pinch, Open_Palm,
\* Closed_Fist, thumb only (Thumb_Up, Thumb_Down, Closed_Fist in the dead zone),
\* Victory, Pointing_Up, ILoveYou, None.
C12_FirstMatchWins ==
    probe # <<>> =>
        probe[1].detectedGesture =
            FirstMatch(probe[1].fingers, probe[1].isPinch, probe[1].thumbDiffY)

\* All five digits extended and the tips of thumb and index together: the first
\* rule decides.
C12_Witness ==
    /\ probe # <<>>
    /\ \A d \in DOMAIN probe[1].fingers : probe[1].fingers[d]
    /\ probe[1].isPinch
    /\ probe[1].detectedGesture = "Pinch"

\* The classifier was applied to a landmark set.
HandProbe == probe # <<>> /\ probe[1].landmarks # <<>>

\* The digits the finger states report as extended.
ExtendedDigits(f) == {d \in DOMAIN f : f[d]}

\* C13 as stated: a landmark set with all five digits extended is classified
\* Open_Palm, whatever its pinch distance.
C13_OpenHandIsPalm_Stated ==
    (HandProbe /\ ExtendedDigits(probe[1].fingers) = DOMAIN probe[1].fingers) =>
        probe[1].detectedGesture = "Open_Palm"

\* C13: with all five digits extended and the tips of thumb and index at least
\* 0.08 apart, the classifier returns Open_Palm.
C13_OpenHandIsPalm ==
    ( /\ probe # <<>>
      /\ ExtendedDigits(probe[1].fingers) = DOMAIN probe[1].fingers
      /\ ~probe[1].isPinch ) => probe[1].detectedGesture = "Open_Palm"

\* An open hand, thumb and index apart, is classified Open_Palm.
C13_Witness ==
    /\ HandProbe
    /\ probe[1].landmarks = <<BaseHand(OpenShape)>>
    /\ ExtendedDigits(probe[1].fingers) = DOMAIN probe[1].fingers
    /\ ~probe[1].isPinch
    /\ probe[1].detectedGesture = "Open_Palm"

\* C14: with no digit extended the classifier returns Closed_Fist, whatever the
\* pinch distance and the thumb offset.
C14_FistIsFist ==
    (probe # <<>> /\ ExtendedDigits(probe[1].fingers) = {}) =>
        probe[1].detectedGesture = "Closed_Fist"

\* A fist whose thumb tip lies within pinch distance of the index tip.
C14_Witness ==
    /\ HandProbe
    /\ ExtendedDigits(probe[1].fingers) = {}
    /\ probe[1].isPinch
    /\ probe[1].detectedGesture = "Closed_Fist"

\* C15 as stated: a landmark set whose only extended digit is the index finger is
\* classified Pointing_Up.
C15_IndexOnlyPoints_Stated ==
    (HandProbe /\ ExtendedDigits(probe[1].fingers) = {"index"}) =>
        probe[1].detectedGesture = "Pointing_Up"

\* C15: with the index finger the only one of index, middle, ring and pinky that is
\* extended, the classifier returns Pointing_Up if the thumb is extended and
\* Closed_Fist if it is not.
C15_IndexOnlyPoints ==
    (probe # <<>> /\ ExtendedDigits(probe[1].fingers) \ {"thumb"} = {"index"}) =>
        probe[1].detectedGesture =
            IF probe[1].fingers.thumb THEN "Pointing_Up" ELSE "Closed_Fist"

\* A hand with index and thumb out is classified Pointing_Up.
C15_Witness ==
    /\ HandProbe
    /\ probe[1].landmarks = <<BaseHand(PointShape)>>
    /\ ExtendedDigits(probe[1].fingers) = {"thumb", "index"}
    /\ probe[1].detectedGesture = "Pointing_Up"

\* One label for each landmark set the sessions are fed.
LabelOfHand(h) ==
    CASE h = BaseHand(OpenShape)    -> "Open_Palm"
      [] h = BaseHand(FistShape)    -> "Closed_Fist"
      [] h = BaseHand(PointShape)   -> "Pointing_Up"
      [] h = BaseHand(VictoryShape) -> "Victory"
      [] h = BaseHand(ThumbUpShape) -> "Thumb_Up"
      [] h = BaseHand(ThumbDnShape) -> "Thumb_Down"
      [] h = BaseHand(LoveShape)    -> "ILoveYou"
      [] h = BaseHand(PinchShape)   -> "Pinch"
      [] OTHER                      -> "None"

\* C16: the label of a frame depends on its landmark set alone: in whatever state
\* of streak, palm history, cooldown, pinch guard and flags a session receives a
\* landmark set, it computes the one label of that set, so sessions in different
\* states agree and classifying a set twice in a row gives the same label.
C16_LabelOfLandmarksOnly == HandFrame => FrameLabel = LabelOfHand(FrameHand)

\* A victory hand classified in a session that has fired a pinch, whose cooldown is
\* running, whose palm history is full and whose flags are set.
C16_Witness ==
    /\ HandFrame
    /\ FrameHand = BaseHand(VictoryShape)
    /\ FrameLabel = "Victory"
    /\ gestureStreak.count = 1
    /\ pinchActive /\ pinchCooldown > 0
    /\ Len(palmHistory) = HistoryLen
    /\ debugMode /\ isPhotoSelected /\ photoLocked

\* C17: a frame whose label differs from the label of the streak, a None label
\* included, leaves a streak count of at most 1 (1 for a new label, 0 for None),
\* whatever the count was; a frame that repeats the streak's label adds exactly 1.
C17_StreakResets ==
    [][ HandFrame' =>
            IF FrameLabel' # "None" /\ FrameLabel' = gestureStreak.name
            THEN gestureStreak' = [name |-> FrameLabel', count |-> gestureStreak.count + 1]
            ELSE /\ gestureStreak'.count <= 1
                 /\ gestureStreak' =
                        IF FrameLabel' = "None" THEN [name |-> "null", count |-> 0]
                        ELSE [name |-> FrameLabel', count |-> 1]
      ]_vars

\* Three frames: a pinch, the pinch again (stable, it fires), then a fist, whose
\* streak starts at 1.
C17_Witness ==
    /\ HandFrame
    /\ now = 2
    /\ pinchCount = 1
    /\ gestureStreak = [name |-> "Closed_Fist", count |-> 1]

\* The last step processed a frame in which no hand was detected.
NoHandFrame == frame # <<>> /\ frame[1].landmarks = <<>>

\* C18: a frame without a hand resets the streak to {no label, 0} and fires nothing;
\* a frame adds at most 1 to the count, and onGesture and onPinch are invoked only
\* with the count at the label's threshold or above: so after a frame without a
\* hand a gesture needs its full threshold of frames in a row again.
C18_NoHandResets ==
    [][ /\ NoHandFrame' =>
                /\ gestureStreak' = [name |-> "null", count |-> 0]
                /\ ~Invoked("onGesture")' /\ ~Invoked("onPinch")'
        /\ frame' # <<>> => gestureStreak'.count <= gestureStreak.count + 1
        /\ (Invoked("onGesture")' \/ Invoked("onPinch")') =>
                /\ gestureStreak'.name \in DOMAIN ListedThreshold
                /\ gestureStreak'.count >= ListedThreshold[gestureStreak'.name]
      ]_vars

\* Four frames: a pinch, the pinch again (it fires), no hand, the pinch again: the
\* palm history and the streak have started over and nothing fires.
C18_Witness ==
    /\ HandFrame /\ FrameLabel = "Pinch"
    /\ now = 3
    /\ pinchCount = 1
    /\ Len(palmHistory) = 1
    /\ gestureStreak = [name |-> "Pinch", count |-> 1]
    /\ ~Invoked("onPinch")

\* The mean of the palm history, and the change dx of its mirrored x and dy of its
\* y from the last averaged palm position to the history h.
MeanOf(h) == Pt(SumX(h) \div Len(h), SumY(h) \div Len(h))
PanDx(h) == (PalmOne - MeanOf(h).x) - (PalmOne - lastPalmPos[1].x)
PanDy(h) == MeanOf(h).y - lastPalmPos[1].y

\* The step processes a frame that is eligible for pan: a hand in the palm-control
\* branch, the photo not locked, a last averaged palm position recorded.
PanEligible ==
    /\ HandFrame'
    /\ FrameLabel' = "Open_Palm" \/ extendedCount(getFingerState(FrameHand', FrameHand'[0])) = 4
    /\ ~photoLocked
    /\ lastPalmPos # <<>>

\* C19: a frame eligible for pan invokes onPalmMove exactly if |dx| > 0.001 or
\* |dy| > 0.001, and then with the arguments (dx * palmSpeed, dy * palmSpeed).
C19_PanThreshold ==
    [][ PanEligible =>
            /\ Invoked("onPalmMove")' <=>
                    \/ 1000 * Abs(PanDx(palmHistory')) > PalmOne
                    \/ 1000 * Abs(PanDy(palmHistory')) > PalmOne
            /\ \A i \in 1..Len(calls') : calls'[i].cb = "onPalmMove" =>
                    /\ calls'[i].x = PanDx(palmHistory') * palmSpeed
                    /\ calls'[i].y = PanDy(palmHistory') * palmSpeed
      ]_vars

\* Two frames: an open palm, then the palm 0.002 to the side and 0.002 lower: the
\* average moves by exactly 0.001 on both axes and onPalmMove is not invoked.
C19_Witness ==
    /\ HandFrame /\ ~photoLocked
    /\ now = 1
    /\ palmHistory = <<rawPalm(BaseHand(OpenShape)), rawPalm(Hand(OpenShape, 502, 802, 4))>>
    /\ 1000 * Abs(lastPalmPos[1].x - rawPalm(BaseHand(OpenShape)).x) = PalmOne
    /\ 1000 * Abs(lastPalmPos[1].y - rawPalm(BaseHand(OpenShape)).y) = PalmOne
    /\ ~Invoked("onPalmMove")

\* The step processes the open palm whose x is 0.01 * now' past the first frame's,
\* after at least four Open_Palm frames in a row, with the photo not locked at this
\* frame nor at the one before (a locked frame clears lastPalmPosRef, line 545).
FifthRampFrame ==
    /\ HandFrame'
    /\ FrameHand' = Hand(OpenShape, 500 + 10 * now', 800, 4)
    /\ FrameLabel' = "Open_Palm"
    /\ gestureStreak.name = "Open_Palm" /\ gestureStreak.count >= 4
    /\ ~photoLocked
    /\ lastPalmPos # <<>>

\* C20: with an open palm whose raw x grows by 0.01 per frame at constant y, palmSpeed
\* 25 and the photo not locked, every frame from the fifth on invokes onPalmMove with
\* a deltaX of magnitude 0.25 and a deltaY of 0.
C20_RampPansQuarter ==
    [][ FifthRampFrame =>
            /\ Invoked("onPalmMove")'
            /\ \A i \in 1..Len(calls') : calls'[i].cb = "onPalmMove" =>
                    4 * Abs(calls'[i].x) = PalmOne /\ calls'[i].y = 0
      ]_vars

\* The ninth frame of an uninterrupted ramp: onPalmMove(-0.25, 0).
C20_Witness ==
    /\ HandFrame /\ ~photoLocked
    /\ now = 8
    /\ gestureStreak = [name |-> "Open_Palm", count |-> 9]
    /\ FrameHand = Hand(OpenShape, 580, 800, 4)
    /\ \E i \in 1..Len(calls) :
            calls[i].cb = "onPalmMove" /\ 4 * calls[i].x = -PalmOne /\ calls[i].y = 0

\* How often the last step invoked the callback cb.
TimesInvoked(cb) == Cardinality({i \in 1..Len(calls) : calls[i].cb = cb})

\* C21: every processed frame, with or without a hand and whatever the gesture, the
\* lock and the selection, invokes onMove exactly once.
C21_MoveOncePerFrame == HandFrame \/ NoHandFrame => TimesInvoked("onMove") = 1

\* A locked open-palm frame: one onMove, with the value 0.
C21_Witness ==
    /\ HandFrame /\ photoLocked /\ isPhotoSelected
    /\ FrameLabel = "Open_Palm"
    /\ TimesInvoked("onMove") = 1
    /\ \E i \in 1..Len(calls) : calls[i] = Call("onMove", "", 0, 0)

\* C22: onGesture is never invoked with None or Pinch, and only on a frame whose
\* label has a streak count at or above the threshold of that label.
C22_GestureOnlyStable ==
    \A i \in 1..Len(calls) : calls[i].cb = "onGesture" =>
        /\ calls[i].g \notin {"None", "Pinch"}
        /\ HandFrame /\ FrameLabel = calls[i].g
        /\ gestureStreak.name = calls[i].g
        /\ gestureStreak.count >= ListedThreshold[calls[i].g]

\* The fourth Victory frame in a row reports Victory.
C22_Witness ==
    /\ HandFrame /\ FrameLabel = "Victory"
    /\ gestureStreak = [name |-> "Victory", count |-> 4]
    /\ \E i \in 1..Len(calls) : calls[i] = Call("onGesture", "Victory", 0, 0)

\* C23: the pinch cooldown remaining is never below zero, whatever the frame
\* intervals.
C23_CooldownNonNegative == pinchCooldown >= 0

\* C24: the palm position history never holds more than 4 samples: a hand frame
\* appends one sample, evicting the oldest when the length would exceed 4, and a
\* no-hand frame empties it.
C24_HistoryAtMostFour ==
    /\ [](Len(palmHistory) <= 4)
    /\ [][ /\ HandFrame' =>
                 /\ palmHistory' # <<>>
                 /\ SubSeq(palmHistory', 1, Len(palmHistory') - 1) =
                        IF Len(palmHistory) + 1 > 4 THEN Tail(palmHistory) ELSE palmHistory
           /\ NoHandFrame' => palmHistory' = <<>>
         ]_vars

\* The sixth open palm in a row: four samples are held, the newest last.
C24_Witness ==
    /\ HandFrame /\ now = 5
    /\ gestureStreak = [name |-> "Open_Palm", count |-> 6]
    /\ Len(palmHistory) = 4
    /\ palmHistory[1] = rawPalm(Hand(OpenShape, 502, 802, 4))
    /\ palmHistory[4] = rawPalm(Hand(OpenShape, 503, 800, 4))

\* The frame just processed shows a hand in the palm-control branch, with the photo
\* not locked and the label's streak at or above its threshold.
StableUnlockedPalm ==
    /\ HandFrame
    /\ FrameLabel = "Open_Palm" \/ extendedCount(frame[1].fingers) = 4
    /\ ~photoLocked
    /\ FrameLabel # "None"
    /\ gestureStreak.name = FrameLabel
    /\ gestureStreak.count >= ListedThreshold[FrameLabel]

\* onZoom needs a baseline, and the first stable palm-control frame only records one.
ZoomNeedsBaseline ==
    /\ Invoked("onZoom")' => lastHandScale # <<>>
    /\ (StableUnlockedPalm' /\ lastHandScale = <<>>) =>
            lastHandScale' # <<>> /\ ~Invoked("onZoom")'

\* C25 as stated: onZoom needs a baseline, and every frame that is not a stable,
\* unlocked palm-control frame discards the baseline.
C25_BaselinePerEpisode_Stated ==
    [][ /\ ZoomNeedsBaseline
        /\ (frame' # <<>> /\ ~StableUnlockedPalm') => lastHandScale' = <<>>
      ]_vars

\* C25: onZoom needs a baseline, and every hand frame that is not a stable, unlocked
\* palm-control frame discards the baseline.  A no-hand frame keeps the baseline and
\* resets the streak, so a zoom is only computed when the frame before was a stable
\* frame of the same streak.
C25_BaselinePerEpisode ==
    [][ /\ ZoomNeedsBaseline
        /\ (HandFrame' /\ ~StableUnlockedPalm') => lastHandScale' = <<>>
        /\ NoHandFrame' => lastHandScale' = lastHandScale /\ gestureStreak'.count = 0
        /\ Invoked("onZoom")' =>
                /\ gestureStreak.name = FrameLabel'
                /\ gestureStreak.count >= ListedThreshold[FrameLabel']
      ]_vars

\* A stable open palm after a no-hand frame that had kept the baseline of the palm
\* before it: the baseline is a fresh one and no zoom was emitted.
C25_Witness ==
    /\ StableUnlockedPalm /\ FrameLabel = "Open_Palm"
    /\ now = 4
    /\ gestureStreak.count = 2
    /\ FrameHand = Hand(OpenShape, 500, 800, 5)
    /\ lastHandScale = <<smoothScale(<<>>, Hypot(FrameHand[0], FrameHand[9]))>>
    /\ ~Invoked("onZoom")

\* C26: within one unbroken run of frames classified Pinch, onPinch is invoked at
\* most once, however long the run, however the pinch moves and however often the
\* cooldown expires.
C26_OncePerPinchRun == runPinches <= 1

\* The sixth Pinch frame of a run that fired once: the cooldown has expired and the
\* pinch is more than 0.1 from where it fired, yet onPinch is not invoked again.
C26_Witness ==
    /\ HandFrame /\ FrameLabel = "Pinch"
    /\ gestureStreak = [name |-> "Pinch", count |-> 6]
    /\ runPinches = 1 /\ pinchCount = 1
    /\ pinchCooldown <= 0
    /\ lastPinchPos # <<>>
    /\ IF lastPinchPos = <<>> THEN FALSE ELSE FartherThanTenth(pinchPos(FrameHand))
    /\ ~Invoked("onPinch")

\* The step processes a stable Pinch, in a run of Pinch frames that began after the
\* last fire and has not fired, with the cooldown elapsed and the pinch more than 0.1
\* from the last fire (or no fire position on record).
PinchAfterBreak ==
    /\ HandFrame' /\ FrameLabel' = "Pinch"
    /\ gestureStreak'.count >= ListedThreshold["Pinch"]
    /\ pinchCount >= 1
    /\ (IF gestureStreak.name = "Pinch" THEN runPinches ELSE 0) = 0
    /\ CooldownAt(now' - lastFrameTime) <= 0
    /\ IF lastPinchPos = <<>> THEN TRUE ELSE FartherThanTenth(pinchPos(FrameHand'))

\* C27: once a frame after a fire is not classified Pinch (another gesture, stable or
\* not, None, or no hand), the next stable Pinch more than 0.1 from the last fire with
\* the cooldown elapsed invokes onPinch.
C27_BreakEndsSuppression == [][ PinchAfterBreak => Invoked("onPinch")' ]_vars

\* The callbacks through which the frame pipeline acts.
PipelineCallbacks == {"onGesture", "onPinch", "onPalmMove", "onZoom", "onMove"}

\* C28: no frame is processed and no pipeline callback is invoked before the status
\* 'AI READY' has been reported; once setup has failed (camera, WASM or model), no
\* frame is ever processed, no frame is requested and no pipeline callback is invoked.
C28_IdleUntilReady ==
    [][ /\ frame' # <<>> => setupOutcome = "ready" \/ calls'[1] = Status("AI READY")
        /\ \A i \in 1..Len(calls') : calls'[i].cb \in PipelineCallbacks =>
                \/ setupOutcome = "ready"
                \/ \E j \in 1..(i - 1) : calls'[j] = Status("AI READY")
        /\ setupOutcome = "failed" =>
                /\ setupOutcome' = "failed"
                /\ frame' = <<>> /\ ~requestRef' /\ lastVideoTime' = -1
                /\ \A i \in 1..Len(calls') : calls'[i].cb \notin PipelineCallbacks
      ]_vars

\* The camera request timed out on the first call of setup() and on both retries:
\* setup has failed, nothing is pending and no frame was ever processed.
C28_Witness ==
    /\ setupOutcome = "failed"
    /\ retryCount = MAX_RETRIES /\ ~retryTimer /\ pc = "idle"
    /\ calls = <<Status("AI TIMEOUT")>>
    /\ lastVideoTime = -1 /\ ~requestRef

\* C29: a share is renewed at most 7 times: over any interleaving of calls of
\* refreshShareExpiry at most 7 return success, and the stored refreshCount never
\* exceeds 7.
C29_AtMostSevenRenewals == renewed <= 7 /\ stored.refreshCount <= 7

\* The stored password hash and salt are both present or both absent.
PasswordPair(doc) == (doc.passwordHash = <<>>) <=> (doc.passwordSalt = <<>>)

\* C30: an updateShare that succeeds with the password undefined writes the hash and
\* salt of the share it read, with null writes neither, and with a valid string
\* writes a hash and a salt made for this call; the stored hash and salt are always
\* both present or both absent.
C30_PasswordThreeWays ==
    /\ PasswordPair(stored)
    /\ lastUpdate # <<>> =>
        /\ stored = lastUpdate[1].written
        /\ lastUpdate[1].password.kind = "undefined" =>
                /\ lastUpdate[1].written.passwordHash = lastUpdate[1].existing.passwordHash
                /\ lastUpdate[1].written.passwordSalt = lastUpdate[1].existing.passwordSalt
        /\ lastUpdate[1].password.kind = "null" =>
                /\ lastUpdate[1].written.passwordHash = <<>>
                /\ lastUpdate[1].written.passwordSalt = <<>>
        /\ ( /\ lastUpdate[1].password.kind = "string"
             /\ lastUpdate[1].password.length >= 4
             /\ lastUpdate[1].password.length <= 20 ) =>
                /\ lastUpdate[1].written.passwordSalt # <<>>
                /\ lastUpdate[1].written.passwordSalt # lastUpdate[1].existing.passwordSalt
                /\ lastUpdate[1].written.passwordHash # lastUpdate[1].existing.passwordHash
                /\ lastUpdate[1].written.passwordHash =
                        <<hashPassword(lastUpdate[1].password,
                                       lastUpdate[1].written.passwordSalt[1]).hash>>

\* A share that had a password is updated with a new valid password: the hash and
\* the salt stored are both new.
C30_Witness ==
    /\ lastUpdate # <<>>
    /\ lastUpdate[1].password = [kind |-> "string", length |-> 20]
    /\ lastUpdate[1].existing.passwordSalt = <<0>>
    /\ stored.passwordSalt = <<1>>
    /\ stored.passwordHash = <<hashPassword([kind |-> "string", length |-> 20], 1).hash>>

\* The state of gesture detection, and the onGesture and onPinch calls of the last step.
Detection ==
    [streak |-> gestureStreak, active |-> pinchActive, cooldown |-> pinchCooldown,
     pos |-> lastPinchPos]
IsGestureCall(c) == c.cb \in {"onGesture", "onPinch"}
GestureCalls == SelectSeq(calls, IsGestureCall)

\* The label of each hand the frame loop is fed.
LabelTable == [h \in GestureHands |-> LabelOfHand(h)]

\* What detection becomes, and which calls it makes, when the hand h, of label g, is
\* seen delta after the last frame: a function of the detection state, h and delta.
DetectionAfterHand(h, g, delta) ==
    LET count  == IF g = "None" THEN 0
                  ELSE IF gestureStreak.name = g THEN gestureStreak.count + 1 ELSE 1
        stable == IF g = "None" THEN FALSE ELSE count >= ListedThreshold[g]
        cool   == CooldownAt(delta)
        moved  == IF lastPinchPos = <<>> THEN TRUE ELSE FartherThanTenth(pinchPos(h))
        fires  == stable /\ g = "Pinch" /\ ~pinchActive /\ cool <= 0 /\ moved
        drops  == (stable /\ g # "Pinch") \/ (~stable /\ g = "None")
    IN  [state |-> [streak |-> [name |-> IF g = "None" THEN "null" ELSE g, count |-> count],
                    active |-> IF fires THEN TRUE ELSE IF drops THEN FALSE ELSE pinchActive,
                    cooldown |-> IF fires THEN 3 ELSE cool,
                    pos |-> IF fires THEN <<pinchPos(h)>>
                            ELSE IF ~stable /\ g = "None" THEN <<>> ELSE lastPinchPos],
         calls |-> IF fires THEN <<Call("onPinch", "", pinchPos(h).x, pinchPos(h).y)>>
                   ELSE IF stable /\ g # "Pinch" THEN <<Call("onGesture", g, 0, 0)>>
                   ELSE <<>>]

\* The same for a frame without a hand.
DetectionAfterNoHand(delta) ==
    [state |-> [streak |-> [name |-> "null", count |-> 0], active |-> pinchActive,
                cooldown |-> CooldownAt(delta), pos |-> lastPinchPos],
     calls |-> <<>>]

\* C31: photoLocked and isPhotoSelected do not influence gesture detection: label,
\* streak, pinch guard and the onGesture and onPinch calls of every frame are
\* determined by the detection state before it, the frame and the frame time, so
\* runs fed the same frames at the same times agree on them whatever the flags.
C31_FlagsDoNotSteerDetection ==
    [][ /\ HandFrame' =>
              /\ FrameLabel' = LabelTable[FrameHand']
              /\ \E after \in {DetectionAfterHand(FrameHand', FrameLabel', now' - lastFrameTime)} :
                    Detection' = after.state /\ GestureCalls' = after.calls
        /\ NoHandFrame' =>
              /\ Detection' = DetectionAfterNoHand(now' - lastFrameTime).state
              /\ GestureCalls' = DetectionAfterNoHand(now' - lastFrameTime).calls
      ]_vars

\* A pinch fires while the photo is locked and selected.
C31_Witness ==
    /\ HandFrame /\ photoLocked /\ isPhotoSelected
    /\ FrameLabel = "Pinch"
    /\ gestureStreak = [name |-> "Pinch", count |-> 2]
    /\ Invoked("onPinch") /\ pinchActive

\* The frame processed last showed no hand (line 598 has emptied the palm history).
AfterGap == lastVideoTime >= 0 /\ palmHistory = <<>>

\* C32: no pan is computed across a tracking gap: the first hand frame after one or
\* more frames without a hand invokes no onPalmMove.
C32_NoPanAcrossGap == [][ (AfterGap /\ HandFrame') => ~Invoked("onPalmMove")' ]_vars

\* C33: the rotation momentum is 0 in every reachable state, so every onMove of the
\* session carries the value 0.
C33_MomentumAlwaysZero ==
    /\ rotationBoost.n = 0
    /\ \A i \in 1..Len(calls) : calls[i].cb = "onMove" => calls[i].x = 0

\* The fourth frame of a fist with no photo selected: the damping branch has
\* multiplied the momentum by 0.9 four times and reports 0.
C33_Witness ==
    /\ HandFrame /\ ~isPhotoSelected
    /\ gestureStreak = [name |-> "Closed_Fist", count |-> 4]
    /\ rotationBoost.n = 0
    /\ \E i \in 1..Len(calls) : calls[i].cb = "onMove" /\ calls[i].x = 0

\* The step is a display tick on which no frame was taken from the video.
SkippedTick == now' # now /\ lastVideoTime' = lastVideoTime

\* C34: a display tick without a new video frame changes nothing of the session state
\* and invokes no callback; the next processed frame takes the whole time since the
\* last processed one off the cooldown.
C34_SkippedTickIsInert ==
    [][ /\ SkippedTick =>
              /\ UNCHANGED <<gestureStreak, palmHistory, lastPalmPos, lastHandScale,
                             pinchCooldown, pinchActive, lastPinchPos, lastFrameTime,
                             rotationBoost>>
              /\ calls' = <<>>
        /\ frame' # <<>> =>
              /\ lastFrameTime' = now'
              /\ ~Invoked("onPinch")' => pinchCooldown' = CooldownAt(now' - lastFrameTime)
      ]_vars

\* A pinch fired at 0.1 s, the tick at 0.2 s had no new frame, and the frame at 0.3 s
\* took 0.2 s off the cooldown of 0.3 s.
C34_Witness ==
    /\ HandFrame /\ now = 3 /\ lastFrameTime = 3
    /\ gestureStreak = [name |-> "Pinch", count |-> 3]
    /\ pinchCount = 1
    /\ pinchCooldown = 1

\* In this step caller c's uploadShare sends a PUT: its first, or one more after a
\* failed attempt.
UploadSends(c) ==
    /\ pending'[c].fn = "uploadShare"
    /\ pending[c].fn = "none" \/ pending'[c].attempt > pending[c].attempt

\* C35: uploadShare sends a PUT only while no local share record exists, writes the
\* record only after its PUT was answered with success, and a call that fails returns
\* success=false and leaves the record as it was.
C35_UploadGuardsLocalShare ==
    [][ /\ (\E c \in Callers : UploadSends(c)) => localShare = <<>>
        /\ localShare' # localShare =>
              /\ lastPut' # <<>> /\ lastPut'[1].fn = "uploadShare"
              /\ lastPut'[1].answer.kind = "response" /\ lastPut'[1].answer.status = "200"
              /\ lastReturn' # <<>> /\ lastReturn'[1].success
        /\ (lastReturn' # <<>> /\ ~lastReturn'[1].success) => localShare' = localShare
      ]_vars

\* The last step handled the end of a PUT attempt and the call goes on to another.
PutRetried == lastPut # <<>> /\ lastReturn = <<>>

\* The last step handled the end of a PUT attempt with which the call failed.
PutFailed == lastPut # <<>> /\ lastReturn # <<>> /\ ~lastReturn[1].success

\* The fetch was rejected with the message of a network error.
NetworkError(answer) ==
    /\ answer.kind = "rejection"
    /\ answer.message = <<"Failed to fetch">> \/ includes(answer.message, "NetworkError")

\* The response has a status other than 200 and 400 and a text that holds 'NetworkError'.
StatusNamingNetworkError(answer) ==
    /\ answer.kind = "response" /\ answer.status \notin {"200", "400"}
    /\ includes(answer.text, "NetworkError")

C37_OnlyTokenHolderWrites ==
    [][ /\ (bucket # <<>> /\ bucket' # bucket) =>
              /\ lastWrite' # <<>>
              /\ lastWrite'[1].token = bucket[1].editToken
        /\ (bucket # <<>> /\ bucket' # <<>>) => bucket'[1].editToken = bucket[1].editToken
      ]_vars

\* C38: after stop() or pause(), until play, next, prev or goTo is called, no timer is
\* pending, isPlaying stays false, and currentStepIndex and progress do not change.
C38_NoTimerAfterStop ==
    /\ [](quiet => /\ timeline.timeouts = {} /\ timeline.intervals = {}
                   /\ ~timeline.isPlaying)
    /\ [][ (quiet /\ quiet') =>
              /\ timeline'.currentStepIndex = timeline.currentStepIndex
              /\ timeline'.progress = timeline.progress ]_vars

\* The dialog is locked.
Locked == dialog.lockedUntil # 0

\* C39: the fifth failed verification since the last reset locks the dialog for 30
\* seconds; while it is locked or a verification is in flight, submitting issues no
\* verification request; the end of the lock sets the attempts back to 0; so at most 5
\* verifications fail without a lock of 30 seconds between them; and the verification
\* is saved and onSuccess called only after a verification returned valid.
C39_FiveFailuresThenLock ==
    /\ [](/\ audit.failed <= MAX_ATTEMPTS
          /\ dialog.attempts = audit.failed
          /\ audit.failed = MAX_ATTEMPTS <=> Locked
          /\ Locked => dialog.lockedUntil = audit.lockedAt + LOCKOUT_DURATION
          /\ (audit.lockedAt >= 0 /\ clock < audit.lockedAt + LOCKOUT_DURATION) => Locked
          /\ verification # <<>> => dialog.loading /\ ~Locked
          /\ (audit.saved \/ audit.onSuccess) => audit.valid)
    /\ [][ /\ (verification = <<>> /\ verification' # <<>>) => ~dialog.loading /\ ~Locked
           /\ (dialog.loading \/ Locked) => (verification' = <<>> \/ verification' = verification)
           /\ (Locked /\ ~Locked') =>
                 /\ dialog'.attempts = 0
                 /\ clock' >= audit.lockedAt + LOCKOUT_DURATION
         ]_vars

\* A lock of 30 seconds has ended and the first verification after it has failed.
C39_Witness ==
    /\ audit.lockedAt >= 0 /\ clock >= audit.lockedAt + LOCKOUT_DURATION
    /\ ~Locked /\ ~dialog.loading
    /\ dialog.attempts = 1 /\ audit.failed = 1
    /\ dialog.error = "wrong"

====
